---------------------------- MODULE Spec2Model ----------------------------
(***************************************************************************)
(* Event-sourced state engine of the gym application (SQLite back end):    *)
(* the event log, the precondition validator, the projection reducer and   *)
(* the emit_event transaction, as coded in src/backend/events.py,          *)
(* src/backend/database.py and src/backend/schema/events.py.               *)
(*                                                                         *)
(* Python values are modelled as follows: a dict is a function on strings  *)
(* (a record), a list is a sequence, a str is a string, an int or float is *)
(* an integer.  A dict key whose value is None is modelled as a key that   *)
(* is absent from the dict: d.get(k) is None in both readings, and the     *)
(* code never asks whether a key is in a dict (pydantic's model_dump()     *)
(* lists every declared field, None when not supplied).  A uuid4() is a    *)
(* natural number, a timestamp is the reading of a logical clock.          *)
(***************************************************************************)
EXTENDS Integers, Sequences, FiniteSets, TLC

(***************************************************************************)
(* Bounds of the model.                                                    *)
(***************************************************************************)
\* append_event invocations (readings of the clock) followed in a run of Spec
MaxAppends == 3
\* the same in a run of SpecTemplates
MaxTemplateAppends == 3
\* the same in a run of SpecSets
MaxSetAppends == 5
\* the event ids that SetModified and SetDeleted requests name are 1..MaxHandle
MaxHandle == 3
\* append_event invocations followed in a run of SpecExercises
MaxExerciseAppends == 4
\* append_event invocations followed in a run of SpecUsers
MaxUserAppends == 3
\* the limits that get_events is read with are 0..MaxLimit and the default
MaxLimit == 2
\* append_event invocations followed in a run of SpecFair
MaxFairAppends == 2
\* append_event invocations followed in a run of SpecLibrary
MaxLibraryAppends == 4
\* append_event invocations followed in a run of SpecErrors
MaxErrorAppends == 2
\* append_event invocations followed in a run of SpecFrame
MaxFrameAppends == 5

(***************************************************************************)
(* Python's None where it is a value of its own and not the value of a     *)
(* dict key: a projection that was cleared or never written, the derived   *)
(* data of most events.                                                    *)
(***************************************************************************)
None == [none |-> TRUE]
\* the empty dict {} (update_projections' derived on its defensive returns)
EmptyDict == <<>>

(***************************************************************************)
(* Event types (schema/events.py, EventType).                              *)
(***************************************************************************)
WORKOUT_STARTED == "WorkoutStarted"
WORKOUT_COMPLETED == "WorkoutCompleted"
WORKOUT_DISCARDED == "WorkoutDiscarded"
EXERCISE_ADDED == "ExerciseAdded"
SET_LOGGED == "SetLogged"
SET_MODIFIED == "SetModified"
SET_DELETED == "SetDeleted"
TEMPLATE_CREATED == "TemplateCreated"
TEMPLATE_UPDATED == "TemplateUpdated"
TEMPLATE_DELETED == "TemplateDeleted"

EventType ==
    {WORKOUT_STARTED, WORKOUT_COMPLETED, WORKOUT_DISCARDED, EXERCISE_ADDED,
     SET_LOGGED, SET_MODIFIED, SET_DELETED, TEMPLATE_CREATED, TEMPLATE_UPDATED,
     TEMPLATE_DELETED}

(***************************************************************************)
(* dict and list helpers.                                                  *)
(***************************************************************************)
\* k in d and d[k] is not None
Has(d, k) == k \in DOMAIN d

\* d[k] = v on a dict (adds the key when it is new)
Put(d, k, v) == [x \in DOMAIN d \cup {k} |-> IF x = k THEN v ELSE d[x]]

\* d[k] = source.get(k): the key is set when the source has it, None otherwise
PutFrom(d, k, source) == IF Has(source, k) THEN Put(d, k, source[k]) ELSE d

\* Python truthiness of a dict-or-None value
Truthy(v) == v # None /\ v # EmptyDict

\* `d.get(k) or []` of a list-valued key
GetOrEmpty(d, k) == IF Has(d, k) THEN d[k] ELSE <<>>

\* truthiness of d.get(k) of a str-valued key
TruthyStr(d, k) == Has(d, k) /\ d[k] # ""

\* the list without the elements at the positions in drop
RemoveAt(s, drop) ==
    LET keep == {i \in 1..Len(s) : i \notin drop}
        F[i \in 0..Len(s)] ==
            IF i = 0 THEN <<>>
            ELSE IF i \in keep THEN Append(F[i - 1], s[i]) ELSE F[i - 1]
    IN F[Len(s)]

\* lowest element of a non-empty set of integers
Min(S) == CHOOSE n \in S : \A m \in S : n <= m


(***************************************************************************)
(* Payload schemas (schema/events.py).                                     *)
(***************************************************************************)
\* the fields each payload model declares
PayloadFields(event_type) ==
    CASE event_type = WORKOUT_STARTED ->
            {"workout_id", "name", "from_template_id", "exercise_ids", "exercise_plans"}
      [] event_type = WORKOUT_COMPLETED -> {"workout_id", "notes"}
      [] event_type = WORKOUT_DISCARDED -> {"workout_id", "reason"}
      [] event_type = EXERCISE_ADDED -> {"workout_id", "exercise_id"}
      [] event_type = SET_LOGGED -> {"workout_id", "exercise_id", "weight", "reps", "unit"}
      [] event_type = SET_MODIFIED ->
            {"workout_id", "original_event_id", "weight", "reps", "unit"}
      [] event_type = SET_DELETED -> {"workout_id", "original_event_id", "reason"}
      [] event_type = TEMPLATE_CREATED ->
            {"template_id", "name", "exercise_ids", "exercises", "source_workout_id"}
      [] event_type = TEMPLATE_UPDATED -> {"template_id", "name", "exercise_ids", "exercises"}
      [] event_type = TEMPLATE_DELETED -> {"template_id"}

\* the fields without a default
RequiredFields(event_type) ==
    CASE event_type = WORKOUT_STARTED -> {}
      [] event_type = WORKOUT_COMPLETED -> {"workout_id"}
      [] event_type = WORKOUT_DISCARDED -> {"workout_id"}
      [] event_type = EXERCISE_ADDED -> {"workout_id", "exercise_id"}
      [] event_type = SET_LOGGED -> {"workout_id", "exercise_id", "weight", "reps"}
      [] event_type = SET_MODIFIED -> {"workout_id", "original_event_id"}
      [] event_type = SET_DELETED -> {"workout_id", "original_event_id"}
      [] event_type = TEMPLATE_CREATED -> {"name"}
      [] event_type = TEMPLATE_UPDATED -> {"template_id"}
      [] event_type = TEMPLATE_DELETED -> {"template_id"}

\* the fields filled by a default that is not None: {field: default}
\* (uuid stands for the str(uuid4()) of the default factories)
DefaultFields(event_type, uuid) ==
    CASE event_type = WORKOUT_STARTED -> [workout_id |-> ToString(uuid)]
      [] event_type = SET_LOGGED -> [unit |-> "kg"]
      [] event_type = TEMPLATE_CREATED -> [template_id |-> ToString(uuid)]
      [] OTHER -> EmptyDict

\* Field(gt=0) on weight and reps of SetLogged and SetModified
FieldConstraints(event_type, payload) ==
    event_type \in {SET_LOGGED, SET_MODIFIED} =>
        /\ Has(payload, "weight") => payload.weight > 0
        /\ Has(payload, "reps") => payload.reps > 0
        /\ Has(payload, "unit") => payload.unit \in {"kg", "lb"}

\* what validate_payload raises (pydantic's ValidationError)
ValidationError == [error |-> "ValidationError"]

\* validate_payload(event_type, payload).model_dump(), or ValidationError
validate_payload(event_type, payload, uuid) ==
    IF /\ RequiredFields(event_type) \subseteq DOMAIN payload
       /\ FieldConstraints(event_type, payload)
    THEN LET defaults == DefaultFields(event_type, uuid)
             given == DOMAIN payload \cap PayloadFields(event_type)
         IN [k \in given \cup DOMAIN defaults |->
                IF k \in given THEN payload[k] ELSE defaults[k]]
    ELSE ValidationError

(***************************************************************************)
(* The projections table of one user's database (database.py).  A table    *)
(* is a function from the keys that have a row to the JSON document of the *)
(* row; the PRIMARY KEY on key keeps one row per key.                      *)
(***************************************************************************)
ProjectionKeys == {"current_workout", "workout_history", "workout_templates"}

\* get_projection(key): json.loads of the row's data (None for null), None without a row
get_projection(projections, key) ==
    IF key \in DOMAIN projections THEN projections[key] ELSE None

\* `get_projection(key) or []` of workout_history and workout_templates, which
\* are only ever written as lists
projection_or_empty(projections, key) ==
    IF key \in DOMAIN projections THEN get_projection(projections, key) ELSE <<>>

\* an INSERT OR IGNORE: the row of a key that has one stays as it is
set_projection_KeepsRow(projections, key, data) ==
    [k \in DOMAIN projections \cup {key} |->
        IF k \in DOMAIN projections THEN projections[k] ELSE data]

\* set_projection(key, data): INSERT OR REPLACE of the row
set_projection(projections, key, data) ==
    [k \in DOMAIN projections \cup {key} |-> IF k = key THEN data ELSE projections[k]]

(***************************************************************************)
(* validate_event_preconditions (events.py): TRUE when no ValueError is    *)
(* raised.  projections is the table the _get reads see.                   *)
(***************************************************************************)
\* some set of the workout carries the handle
SetFound(current, original_event_id) ==
    \E i \in 1..Len(current.exercises) :
        \E j \in 1..Len(current.exercises[i].sets) :
            current.exercises[i].sets[j].event_id = original_event_id

\* some template of the list has the id
TemplateFound(templates, template_id) ==
    \E i \in 1..Len(templates) : templates[i].id = template_id

\* the checks shared by every event of an active workout: there is one and
\* the payload names it
ActiveAndMatching(payload, current) ==
    /\ Truthy(current)
    /\ payload.workout_id = current.id

\* some entry of the workout's exercise list has the exercise id
ExerciseFound(current, exercise_id) ==
    \E i \in 1..Len(current.exercises) : current.exercises[i].exercise_id = exercise_id

\* a validator that lets a workout start over an active one
CanStartWorkout_Always(payload, current) == TRUE

\* lines 34-38
CanStartWorkout(payload, current) == ~Truthy(current)

\* lines 40-54
CanAddExercise(payload, current) ==
    /\ ActiveAndMatching(payload, current)
    /\ ~ExerciseFound(current, payload.exercise_id)

\* a validator that takes a set for an exercise the workout does not have
CanLogSet_AnyExercise(payload, current) == ActiveAndMatching(payload, current)

\* lines 56-70
CanLogSet(payload, current) ==
    /\ ActiveAndMatching(payload, current)
    /\ ExerciseFound(current, payload.exercise_id)

\* a validator that takes any handle once the workout matches
CanChangeSet_AnyHandle(payload, current) == ActiveAndMatching(payload, current)

\* lines 72-91 (SetDeleted) and 93-112 (SetModified), which are alike
CanChangeSet(payload, current) ==
    /\ ActiveAndMatching(payload, current)
    /\ SetFound(current, payload.original_event_id)

\* a validator that takes a template id twice
CanCreateTemplate_Always(payload, templates) == TRUE

\* lines 114-121
CanCreateTemplate(payload, templates) == ~TemplateFound(templates, payload.template_id)

\* lines 123-130 (TemplateUpdated) and 132-139 (TemplateDeleted), which are alike
CanChangeTemplate(payload, templates) == TemplateFound(templates, payload.template_id)

\* a validator that lets any workout_id end the active workout
CanEndWorkout_AnyWorkout(payload, current) == Truthy(current)

\* lines 141-148 (WorkoutCompleted) and 150-157 (WorkoutDiscarded), which are alike
CanEndWorkout(payload, current) == ActiveAndMatching(payload, current)

validate_event_preconditions(event_type, payload, projections) ==
    LET current == get_projection(projections, "current_workout")
        templates == projection_or_empty(projections, "workout_templates")
    IN CASE event_type = WORKOUT_STARTED -> CanStartWorkout(payload, current)
         [] event_type = EXERCISE_ADDED -> CanAddExercise(payload, current)
         [] event_type = SET_LOGGED -> CanLogSet(payload, current)
         [] event_type \in {SET_DELETED, SET_MODIFIED} -> CanChangeSet(payload, current)
         [] event_type = TEMPLATE_CREATED -> CanCreateTemplate(payload, templates)
         [] event_type \in {TEMPLATE_UPDATED, TEMPLATE_DELETED} ->
                CanChangeTemplate(payload, templates)
         [] event_type \in {WORKOUT_COMPLETED, WORKOUT_DISCARDED} ->
                CanEndWorkout(payload, current)

(***************************************************************************)
(* update_projections (events.py): the table after the event is folded in, *)
(* and the derived data returned.                                          *)
(***************************************************************************)
\* the first of the matching positions of a list, 0 when none matches
FirstIndex(matches) == IF matches = {} THEN 0 ELSE Min(matches)

\* exercise entries created from the last exercise id to the first
InitialExercises_Reversed(exercise_ids) ==
    [i \in 1..Len(exercise_ids) |->
        [exercise_id |-> exercise_ids[Len(exercise_ids) + 1 - i], sets |-> <<>>]]

\* the exercise entries a WorkoutStarted creates, one per exercise id
InitialExercises(exercise_ids) ==
    [i \in 1..Len(exercise_ids) |-> [exercise_id |-> exercise_ids[i], sets |-> <<>>]]

\* a reducer that counts the use of every template of the list
ApplyWorkoutStarted_CountsAll(payload, timestamp, projections) ==
    LET exercise_ids == GetOrEmpty(payload, "exercise_ids")
        created == PutFrom([id |-> payload.workout_id,
                            started_at |-> timestamp,
                            exercises |-> InitialExercises(exercise_ids)],
                           "from_template_id", payload)
        current_workout ==
            IF Len(exercise_ids) > 0
            THEN Put(created, "focus_exercise", exercise_ids[1])
            ELSE created
        started == set_projection(projections, "current_workout", current_workout)
        templates == projection_or_empty(started, "workout_templates")
    IN IF TruthyStr(payload, "from_template_id") /\ templates # <<>>
       THEN set_projection(started, "workout_templates",
                [i \in 1..Len(templates) |->
                    Put([templates[i] EXCEPT !.use_count = @ + 1],
                        "last_used_at", timestamp)])
       ELSE started

\* lines 243-275
ApplyWorkoutStarted(payload, timestamp, projections) ==
    LET exercise_ids == GetOrEmpty(payload, "exercise_ids")
        created == PutFrom([id |-> payload.workout_id,
                            started_at |-> timestamp,
                            exercises |-> InitialExercises(exercise_ids)],
                           "from_template_id", payload)
        current_workout ==
            IF Len(exercise_ids) > 0
            THEN Put(created, "focus_exercise", exercise_ids[1])
            ELSE created
        started == set_projection(projections, "current_workout", current_workout)
        templates == projection_or_empty(started, "workout_templates")
        IsUsed(t) == t.id = payload.from_template_id
        i == IF TruthyStr(payload, "from_template_id")
             THEN FirstIndex({n \in 1..Len(templates) : IsUsed(templates[n])})
             ELSE 0
    IN IF i > 0
       THEN set_projection(started, "workout_templates",
                [templates EXCEPT ![i] =
                    Put([@ EXCEPT !.use_count = @ + 1], "last_used_at", timestamp)])
       ELSE started

\* sum(len(e["sets"]) for e in exercises)
TotalSets(exercises) ==
    LET F[i \in 0..Len(exercises)] ==
            IF i = 0 THEN 0 ELSE F[i - 1] + Len(exercises[i].sets)
    IN F[Len(exercises)]

\* numerator of 0.453592 over VolumeScale
LbFactor == 453592
\* the decimal places of 0.453592: volumes are exact to the millionth
VolumeScale == 1000000

\* a volume in kg x reps as a decimal number: whole kilograms and millionths
\* (the code adds floats; the places below the millionth, where floats
\* round, are not modelled)
Volume(micro) == [kg |-> micro \div VolumeScale, micro |-> micro % VolumeScale]

\* total_volume_kg += ...
AddVolume(a, b) ==
    [kg |-> a.kg + b.kg + (a.micro + b.micro) \div VolumeScale,
     micro |-> (a.micro + b.micro) % VolumeScale]

\* a set volume that takes every weight for kilograms
SetVolume_IgnoresUnit(set_data) == [kg |-> set_data.weight * set_data.reps, micro |-> 0]

\* lines 288-293: weight_kg * reps of one set
SetVolume(set_data) ==
    IF set_data.unit = "kg"
    THEN [kg |-> set_data.weight * set_data.reps, micro |-> 0]
    ELSE Volume(set_data.weight * LbFactor * set_data.reps)

\* lines 285-293: total_volume_kg
TotalVolume(exercises) ==
    LET OfSets(sets) ==
            LET G[j \in 0..Len(sets)] ==
                    IF j = 0 THEN Volume(0) ELSE AddVolume(G[j - 1], SetVolume(sets[j]))
            IN G[Len(sets)]
        F[i \in 0..Len(exercises)] ==
            IF i = 0 THEN Volume(0) ELSE AddVolume(F[i - 1], OfSets(exercises[i].sets))
    IN F[Len(exercises)]

\* a reducer that puts the completed workout at the end of the history
ApplyWorkoutCompleted_Appends(payload, timestamp, projections) ==
    LET current == get_projection(projections, "current_workout")
        stats == [exercise_count |-> Len(current.exercises),
                  total_sets |-> TotalSets(current.exercises),
                  total_volume |-> TotalVolume(current.exercises)]
        entry == Put(PutFrom(Put(current, "completed_at", timestamp), "notes", payload),
                     "stats", stats)
        history == projection_or_empty(projections, "workout_history")
        archived ==
            IF Truthy(current)
            THEN set_projection(projections, "workout_history", Append(history, entry))
            ELSE projections
    IN set_projection(archived, "current_workout", None)

\* lines 277-314: the table after a WorkoutCompleted
ApplyWorkoutCompleted(payload, timestamp, projections) ==
    LET current == get_projection(projections, "current_workout")
        stats == [exercise_count |-> Len(current.exercises),
                  total_sets |-> TotalSets(current.exercises),
                  total_volume |-> TotalVolume(current.exercises)]
        entry == Put(PutFrom(Put(current, "completed_at", timestamp), "notes", payload),
                     "stats", stats)
        history == projection_or_empty(projections, "workout_history")
        archived ==
            IF Truthy(current)
            THEN set_projection(projections, "workout_history", <<entry>> \o history)
            ELSE projections
    IN set_projection(archived, "current_workout", None)

\* derived data that counts the exercises where it should count the sets
DerivedWorkoutCompleted_CountsExercises(projections) ==
    LET current == get_projection(projections, "current_workout")
    IN IF Truthy(current)
       THEN [total_sets |-> Len(current.exercises),
             total_volume |-> TotalVolume(current.exercises)]
       ELSE None

\* lines 309-311 and 447: the derived data of a WorkoutCompleted
DerivedWorkoutCompleted(projections) ==
    LET current == get_projection(projections, "current_workout")
    IN IF Truthy(current)
       THEN [total_sets |-> TotalSets(current.exercises),
             total_volume |-> TotalVolume(current.exercises)]
       ELSE None

\* a reducer that files the discarded workout in the history
ApplyWorkoutDiscarded_Archives(payload, projections) ==
    LET current == get_projection(projections, "current_workout")
        history == projection_or_empty(projections, "workout_history")
        archived ==
            IF Truthy(current)
            THEN set_projection(projections, "workout_history", <<current>> \o history)
            ELSE projections
    IN set_projection(archived, "current_workout", None)

\* lines 316-318
ApplyWorkoutDiscarded(payload, projections) ==
    set_projection(projections, "current_workout", None)

\* a reducer that adds the exercise and leaves the focus where it was
ApplyExerciseAdded_KeepsFocus(payload, projections) ==
    LET current == get_projection(projections, "current_workout")
        exercise_id == payload.exercise_id
    IN IF ~Truthy(current) THEN projections
       ELSE set_projection(projections, "current_workout",
                [current EXCEPT
                    !.exercises = Append(@, [exercise_id |-> exercise_id, sets |-> <<>>])])

\* lines 320-333
ApplyExerciseAdded(payload, projections) ==
    LET current == get_projection(projections, "current_workout")
        exercise_id == payload.exercise_id
    IN IF ~Truthy(current) THEN projections
       ELSE set_projection(projections, "current_workout",
                Put([current EXCEPT
                        !.exercises = Append(@, [exercise_id |-> exercise_id, sets |-> <<>>])],
                    "focus_exercise", exercise_id))

\* a reducer that numbers the sets of an exercise instead of handing on the event id
ApplySetLogged_Numbered(payload, event_id, projections) ==
    LET current == get_projection(projections, "current_workout")
        exercise_id == payload.exercise_id
        IsIt(ex) == ex.exercise_id = exercise_id
        i == IF Truthy(current)
             THEN FirstIndex({n \in 1..Len(current.exercises) : IsIt(current.exercises[n])})
             ELSE 0
    IN IF i = 0 THEN projections
       ELSE set_projection(projections, "current_workout",
                Put([current EXCEPT
                        !.exercises[i].sets =
                            Append(@, [event_id |-> Len(@) + 1,
                                       weight |-> payload.weight,
                                       reps |-> payload.reps,
                                       unit |-> payload.unit])],
                    "focus_exercise", exercise_id))

\* lines 335-360
ApplySetLogged(payload, event_id, projections) ==
    LET current == get_projection(projections, "current_workout")
        exercise_id == payload.exercise_id
        IsIt(ex) == ex.exercise_id = exercise_id
        i == IF Truthy(current) 
             THEN FirstIndex({n \in 1..Len(current.exercises) : IsIt(current.exercises[n])})
             ELSE 0
    IN IF i = 0 THEN projections
       ELSE set_projection(projections, "current_workout",
                Put([current EXCEPT
                        !.exercises[i].sets =
                            Append(@, [event_id |-> event_id,
                                       weight |-> payload.weight,
                                       reps |-> payload.reps,
                                       unit |-> payload.unit])],
                    "focus_exercise", exercise_id))

\* a reducer that marks the set as deleted and keeps it in its exercise
ApplySetDeleted_MarksSet(payload, projections) ==
    LET current == get_projection(projections, "current_workout")
        original_event_id == payload.original_event_id
        IsHandle(s) == s.event_id = original_event_id
        Holds(ex) == \E j \in 1..Len(ex.sets) : IsHandle(ex.sets[j])
        i == IF Truthy(current)
             THEN FirstIndex({n \in 1..Len(current.exercises) : Holds(current.exercises[n])})
             ELSE 0
    IN IF i = 0 THEN projections
       ELSE set_projection(projections, "current_workout",
                [current EXCEPT
                    !.exercises[i].sets =
                        [j \in 1..Len(@) |->
                            IF IsHandle(@[j]) THEN Put(@[j], "deleted", TRUE) ELSE @[j]]])

\* a reducer that empties the exercise that holds the set
ApplySetDeleted_EmptiesExercise(payload, projections) ==
    LET current == get_projection(projections, "current_workout")
        original_event_id == payload.original_event_id
        IsHandle(s) == s.event_id = original_event_id
        Holds(ex) == \E j \in 1..Len(ex.sets) : IsHandle(ex.sets[j])
        i == IF Truthy(current)
             THEN FirstIndex({n \in 1..Len(current.exercises) : Holds(current.exercises[n])})
             ELSE 0
    IN IF i = 0 THEN projections
       ELSE set_projection(projections, "current_workout",
                [current EXCEPT !.exercises[i].sets = <<>>])

\* lines 362-378
ApplySetDeleted(payload, projections) ==
    LET current == get_projection(projections, "current_workout")
        original_event_id == payload.original_event_id
        IsHandle(s) == s.event_id = original_event_id
        Holds(ex) == \E j \in 1..Len(ex.sets) : IsHandle(ex.sets[j])
        i == IF Truthy(current) 
             THEN FirstIndex({n \in 1..Len(current.exercises) : Holds(current.exercises[n])})
             ELSE 0
    IN IF i = 0 THEN projections
       ELSE set_projection(projections, "current_workout",
                [current EXCEPT
                    !.exercises[i].sets =
                        RemoveAt(@, {j \in 1..Len(@) : IsHandle(@[j])})])

\* a reducer that writes the default unit where the payload holds none
ApplySetModified_DefaultUnit(payload, projections) ==
    LET current == get_projection(projections, "current_workout")
        original_event_id == payload.original_event_id
        IsHandle(s) == s.event_id = original_event_id
        Holds(ex) == \E j \in 1..Len(ex.sets) : IsHandle(ex.sets[j])
        i == IF Truthy(current) 
             THEN FirstIndex({n \in 1..Len(current.exercises) : Holds(current.exercises[n])})
             ELSE 0
        j == FirstIndex({n \in 1..Len(current.exercises[i].sets) :
                            IsHandle(current.exercises[i].sets[n])})
    IN IF i = 0 THEN projections
       ELSE set_projection(projections, "current_workout",
                [current EXCEPT
                    !.exercises[i].sets[j] =
                        [@ EXCEPT
                            !.weight = IF Has(payload, "weight") THEN payload.weight ELSE @,
                            !.reps = IF Has(payload, "reps") THEN payload.reps ELSE @,
                            !.unit = IF Has(payload, "unit") THEN payload.unit ELSE "kg"]])

\* lines 380-404
ApplySetModified(payload, projections) ==
    LET current == get_projection(projections, "current_workout")
        original_event_id == payload.original_event_id
        IsHandle(s) == s.event_id = original_event_id
        Holds(ex) == \E j \in 1..Len(ex.sets) : IsHandle(ex.sets[j])
        i == IF Truthy(current) 
             THEN FirstIndex({n \in 1..Len(current.exercises) : Holds(current.exercises[n])})
             ELSE 0
        j == FirstIndex({n \in 1..Len(current.exercises[i].sets) :
                            IsHandle(current.exercises[i].sets[n])})
    IN IF i = 0 THEN projections
       ELSE set_projection(projections, "current_workout",
                [current EXCEPT
                    !.exercises[i].sets[j] =
                        [@ EXCEPT
                            !.weight = IF Has(payload, "weight") THEN payload.weight ELSE @,
                            !.reps = IF Has(payload, "reps") THEN payload.reps ELSE @,
                            !.unit = IF Has(payload, "unit") THEN payload.unit ELSE @]])

\* a reducer that saves the template and ends the active workout
ApplyTemplateCreated_EndsWorkout(payload, timestamp, projections) ==
    LET templates == projection_or_empty(projections, "workout_templates")
        template == PutFrom(PutFrom([id |-> payload.template_id,
                                     name |-> payload.name,
                                     created_at |-> timestamp,
                                     use_count |-> 0],
                                    "exercise_ids", payload),
                            "source_workout_id", payload)
    IN set_projection(
            set_projection(projections, "workout_templates", Append(templates, template)),
            "current_workout", None)

\* lines 406-419
ApplyTemplateCreated(payload, timestamp, projections) ==
    LET templates == projection_or_empty(projections, "workout_templates")
        template == PutFrom(PutFrom([id |-> payload.template_id,
                                     name |-> payload.name,
                                     created_at |-> timestamp,
                                     use_count |-> 0],
                                    "exercise_ids", payload),
                            "source_workout_id", payload)
    IN set_projection(projections, "workout_templates", Append(templates, template))

\* a reducer that starts the use count of an updated template over
ApplyTemplateUpdated_ResetsUse(payload, timestamp, projections) ==
    LET templates == projection_or_empty(projections, "workout_templates")
        template_id == payload.template_id
        IsIt(t) == t.id = template_id
        i == FirstIndex({n \in 1..Len(templates) : IsIt(templates[n])})
        listed == PutFrom(PutFrom(templates[i], "name", payload), "exercise_ids", payload)
    IN IF i = 0 THEN projections
       ELSE set_projection(projections, "workout_templates",
                [templates EXCEPT
                    ![i] = Put([listed EXCEPT !.use_count = 0], "updated_at", timestamp)])

\* lines 421-434
ApplyTemplateUpdated(payload, timestamp, projections) ==
    LET templates == projection_or_empty(projections, "workout_templates")
        template_id == payload.template_id
        IsIt(t) == t.id = template_id
        i == FirstIndex({n \in 1..Len(templates) : IsIt(templates[n])})
        listed == PutFrom(PutFrom(templates[i], "name", payload), "exercise_ids", payload)
    IN IF i = 0 THEN projections
       ELSE set_projection(projections, "workout_templates",
                [templates EXCEPT ![i] = Put(listed, "updated_at", timestamp)])

\* a reducer that keeps the deleted template
ApplyTemplateDeleted_Keeps(payload, projections) == projections

\* lines 436-445
ApplyTemplateDeleted(payload, projections) ==
    LET templates == projection_or_empty(projections, "workout_templates")
        template_id == payload.template_id
        kept == RemoveAt(templates, {i \in 1..Len(templates) : templates[i].id = template_id})
    IN IF Len(kept) < Len(templates)
       THEN set_projection(projections, "workout_templates", kept)
       ELSE projections

\* the projections table after update_projections
update_projections(event_type, payload, event_id, timestamp, projections) ==
    CASE event_type = WORKOUT_STARTED -> ApplyWorkoutStarted(payload, timestamp, projections)
      [] event_type = WORKOUT_COMPLETED ->
            ApplyWorkoutCompleted(payload, timestamp, projections)
      [] event_type = WORKOUT_DISCARDED -> ApplyWorkoutDiscarded(payload, projections)
      [] event_type = EXERCISE_ADDED -> ApplyExerciseAdded(payload, projections)
      [] event_type = SET_LOGGED -> ApplySetLogged(payload, event_id, projections)
      [] event_type = SET_DELETED -> ApplySetDeleted(payload, projections)
      [] event_type = SET_MODIFIED -> ApplySetModified(payload, projections)
      [] event_type = TEMPLATE_CREATED -> ApplyTemplateCreated(payload, timestamp, projections)
      [] event_type = TEMPLATE_UPDATED -> ApplyTemplateUpdated(payload, timestamp, projections)
      [] event_type = TEMPLATE_DELETED -> ApplyTemplateDeleted(payload, projections)

\* the value update_projections returns: the derived data, None when empty,
\* {} on the returns taken when the workout or the exercise is missing
derived_data(event_type, payload, projections) ==
    LET current == get_projection(projections, "current_workout")
        HasExercise == ExerciseFound(current, payload.exercise_id)
    IN CASE event_type = WORKOUT_COMPLETED -> DerivedWorkoutCompleted(projections)
         [] event_type \in {EXERCISE_ADDED, SET_DELETED, SET_MODIFIED} ->
                IF Truthy(current) THEN None ELSE EmptyDict
         [] event_type = SET_LOGGED ->
                IF Truthy(current) /\ HasExercise THEN None ELSE EmptyDict
         [] OTHER -> None

(***************************************************************************)
(* State.  Every user has a database file of their own (config.py,         *)
(* get_db_path); a database holds the events table and the projections     *)
(* table.  Callers are threads of the server, each running one emit_event  *)
(* at a time.                                                              *)
(***************************************************************************)
Users == {"u1", "u2"}
Procs == {"p1", "p2"}
\* no caller holds the write lock of the database
NoProc == "none"

VARIABLES
    db,     \* db[u]: the committed content of the user's database
    tx,     \* tx[u]: the content as the open write transaction sees it, or None
    lock,   \* lock[u]: the caller whose connection holds the write lock, or NoProc
    clock,  \* the number of datetime.utcnow() readings taken by append_event
    pc,     \* pc[p]: where caller p stands in emit_event
    call,   \* call[p]: the arguments and locals of p's emit_event
    res     \* res[p]: how p's emit_event ended, until the caller takes it

vars == <<db, tx, lock, clock, pc, call, res>>

\* the database _init_sqlite creates: both tables empty
EmptyDb == [events |-> <<>>, projections |-> EmptyDict]

\* how an emit_event can end (main.py maps them to 200, 422, 400, 409, 500)
Ok == "Ok"
SchemaInvalid == "SchemaInvalid"
PreconditionViolation == "PreconditionViolation"
WriteConflict == "WriteConflict"
StorageError == "StorageError"
\* emit_event has not returned
NoResult == "NoResult"

\* what a caller's registers hold when emit_event is entered
NewCall(user_id, event_type, raw, payload, event_id) ==
    [user_id |-> user_id, event_type |-> event_type, raw |-> raw,
     payload |-> payload, event_id |-> event_id]

\* the registers of a caller that is not in emit_event
NoCall == NewCall("", "", EmptyDict, EmptyDict, 0)

\* how a call ended, with what it returned
Outcome(kind, event_record, derived) ==
    [kind |-> kind, event_record |-> event_record, derived |-> derived]

Init ==
    /\ db = [u \in Users |-> EmptyDb]
    /\ tx = [u \in Users |-> None]
    /\ lock = [u \in Users |-> NoProc]
    /\ clock = 0
    /\ pc = [p \in Procs |-> "idle"]
    /\ call = [p \in Procs |-> NoCall]
    /\ res = [p \in Procs |-> Outcome(NoResult, None, None)]

(***************************************************************************)
(* uuid4(): an identifier in use nowhere else.  Identifiers are numbered;  *)
(* the one drawn is the lowest number that no stored event, no open        *)
(* transaction and no running call holds (which one it is has no effect).  *)
(* A call draws two, one for a workout_id or template_id left out and one  *)
(* for the event: the first is the text of a number, the second a number,  *)
(* so that one number serves both.                                         *)
(***************************************************************************)
UuidsOfEvents(events) == {events[i].event_id : i \in 1..Len(events)}

UsedUuids ==
    UNION ({UuidsOfEvents(db[u].events) : u \in Users}
           \cup {UuidsOfEvents(tx[u].events) : u \in {v \in Users : tx[v] # None}}
           \cup {{call[p].event_id} : p \in {q \in Procs : pc[q] # "idle"}})

\* the lowest number not in used
uuid4(used) == Min((1..(Cardinality(used) + 1)) \ used)

(***************************************************************************)
(* emit_event (events.py, lines 159-223), one action per step.             *)
(***************************************************************************)
\* lines 178-183: validate_payload, model_dump and the event id; a
\* ValidationError leaves emit_event at once
Call(p, user_id, event_type, raw) ==
    /\ pc[p] = "idle"
    /\ LET uuid == uuid4(UsedUuids)
           validated_dict == validate_payload(event_type, raw, uuid)
       IN IF validated_dict = ValidationError
          THEN /\ call' = [call EXCEPT ![p] = NewCall(user_id, event_type, raw, EmptyDict, 0)]
               /\ res' = [res EXCEPT ![p] = Outcome(SchemaInvalid, None, None)]
               /\ pc' = [pc EXCEPT ![p] = "done"]
          ELSE /\ call' = [call EXCEPT ![p] =
                    NewCall(user_id, event_type, raw, validated_dict, uuid)]
               /\ pc' = [pc EXCEPT ![p] = "validate"]
               /\ UNCHANGED res
    /\ UNCHANGED <<db, tx, lock, clock>>

\* a read that goes to the database of the first user, whoever calls
Visible_DefaultUser(p) ==
    IF lock["u1"] = p THEN tx["u1"].projections ELSE db["u1"].projections

\* the table a read on p's connection sees: the open transaction's when the
\* connection has one, the committed one otherwise
Visible(p) ==
    LET u == call[p].user_id
    IN IF lock[u] = p THEN tx[u].projections ELSE db[u].projections

\* line 191: validate_event_preconditions.  Its SELECT opens no transaction:
\* sqlite3 begins one (BEGIN IMMEDIATE, database.py line 186) only before an
\* INSERT, UPDATE, DELETE or REPLACE
Validate(p) ==
    /\ pc[p] = "validate"
    /\ IF validate_event_preconditions(call[p].event_type, call[p].payload, Visible(p))
       THEN /\ pc' = [pc EXCEPT ![p] = "append"]
            /\ UNCHANGED res
       ELSE /\ pc' = [pc EXCEPT ![p] = "done"]
            /\ res' = [res EXCEPT ![p] = Outcome(PreconditionViolation, None, None)]
    /\ UNCHANGED <<db, tx, lock, clock, call>>

\* database.py line 201: append_event reads the clock
ReadClock(p) ==
    /\ pc[p] = "append"
    /\ call' = [call EXCEPT ![p] = Put(@, "timestamp", clock)]
    /\ clock' = clock + 1
    /\ pc' = [pc EXCEPT ![p] = "insert"]
    /\ UNCHANGED <<db, tx, lock, res>>

\* a row stamped by the database when it is inserted, after the clock was read
EventRow_Restamped(events, c) ==
    [id |-> Len(events) + 1, event_id |-> c.event_id, timestamp |-> c.timestamp + 1,
     event_type |-> c.event_type, payload |-> c.payload]

\* the row the INSERT adds; AUTOINCREMENT numbers it after the last row
EventRow(events, c) ==
    [id |-> Len(events) + 1, event_id |-> c.event_id, timestamp |-> c.timestamp,
     event_type |-> c.event_type, payload |-> c.payload]

\* an INSERT OR REPLACE that writes over the last row
append_event_Replaces(events, c) ==
    IF events = <<>> THEN <<EventRow(events, c)>>
    ELSE [events EXCEPT ![Len(events)] = EventRow(SubSeq(events, 1, Len(events) - 1), c)]

\* append_event's INSERT: the events table after it
append_event(events, c) == Append(events, EventRow(events, c))

\* an INSERT that does not wait for the write lock
Insert_Unlocked(p) ==
    LET u == call[p].user_id
    IN /\ pc[p] = "insert"
       /\ lock' = [lock EXCEPT ![u] = p]
       /\ tx' = [tx EXCEPT ![u] = [db[u] EXCEPT !.events = append_event(@, call[p])]]
       /\ pc' = [pc EXCEPT ![p] = "project"]
       /\ UNCHANGED <<db, clock, call, res>>

\* database.py lines 213-221: the INSERT, before which sqlite3 issues BEGIN
\* IMMEDIATE: the write lock is taken when no other connection holds it
Insert(p) ==
    LET u == call[p].user_id
    IN /\ pc[p] = "insert"
       /\ lock[u] = NoProc
       /\ lock' = [lock EXCEPT ![u] = p]
       /\ tx' = [tx EXCEPT ![u] = [db[u] EXCEPT !.events = append_event(@, call[p])]]
       /\ pc' = [pc EXCEPT ![p] = "project"]
       /\ UNCHANGED <<db, clock, call, res>>

\* an emit that goes back to its validation when the lock is not to be had
LockTimeout_Retries(p) ==
    /\ pc[p] = "insert"
    /\ lock[call[p].user_id] \notin {NoProc, p}
    /\ pc' = [pc EXCEPT ![p] = "validate"]
    /\ UNCHANGED <<db, tx, lock, clock, call, res>>

\* lines 216-222: another connection held the lock for the whole busy timeout
\* (database.py line 183): "database is locked" becomes ConcurrencyConflictError
LockTimeout(p) ==
    LET u == call[p].user_id
    IN /\ pc[p] = "insert"
       /\ lock[u] \notin {NoProc, p}
       /\ pc' = [pc EXCEPT ![p] = "done"]
       /\ res' = [res EXCEPT ![p] = Outcome(WriteConflict, None, None)]
       /\ UNCHANGED <<db, tx, lock, clock, call>>

\* lines 203-210: update_projections on the transaction's connection
Project(p) ==
    LET u == call[p].user_id
        c == call[p]
    IN /\ pc[p] = "project"
       /\ tx' = [tx EXCEPT ![u].projections =
                    update_projections(c.event_type, c.payload, c.event_id, c.timestamp, @)]
       /\ call' = [call EXCEPT ![p] =
                    Put(@, "derived", derived_data(c.event_type, c.payload, tx[u].projections))]
       /\ pc' = [pc EXCEPT ![p] = "commit"]
       /\ UNCHANGED <<db, lock, clock, res>>

\* database.py line 249: the limit of get_events when the caller gives none
DefaultLimit == 100

\* a get_events that lists the oldest first (ORDER BY id ASC)
get_events_OldestFirst(events, event_type, limit) ==
    LET rows == {i \in 1..Len(events) : event_type = "" \/ events[i].event_type = event_type}
        Rank(i) == Cardinality({j \in rows : events[j].id < events[i].id}) + 1
        n == IF limit < 0 \/ limit > Cardinality(rows) THEN Cardinality(rows) ELSE limit
    IN [k \in 1..n |->
            LET row == events[CHOOSE i \in rows : Rank(i) = k]
            IN [event_id |-> row.event_id, timestamp |-> row.timestamp,
                event_type |-> row.event_type, payload |-> row.payload]]

\* database.py lines 297-333: the stored events of the type (of any type
\* when event_type is empty), ORDER BY id DESC LIMIT limit (sqlite takes a
\* negative limit for no limit)
get_events(events, event_type, limit) ==
    LET rows == {i \in 1..Len(events) : event_type = "" \/ events[i].event_type = event_type}
        Rank(i) == Cardinality({j \in rows : events[j].id > events[i].id}) + 1
        n == IF limit < 0 \/ limit > Cardinality(rows) THEN Cardinality(rows) ELSE limit
    IN [k \in 1..n |->
            LET row == events[CHOOSE i \in rows : Rank(i) = k]
            IN [event_id |-> row.event_id, timestamp |-> row.timestamp,
                event_type |-> row.event_type, payload |-> row.payload]]

\* a reader that sees what the open transaction of another connection has written
Snapshot_Dirty(u) == IF tx[u] # None THEN tx[u] ELSE db[u]

\* database.py lines 181-190: what a connection opened by a reader, outside
\* every emit, reads from the database of u: the committed content
Snapshot(u) == db[u]

\* what append_event returns
event_record(c) ==
    [event_id |-> c.event_id, timestamp |-> c.timestamp,
     event_type |-> c.event_type, payload |-> c.payload]

\* the database after conn.commit(): what the transaction wrote
Committed(committed, written) == written

\* lines 213-215: conn.commit(), the connection is closed, emit_event returns
Commit(p) ==
    LET u == call[p].user_id
    IN /\ pc[p] = "commit"
       /\ db' = [db EXCEPT ![u] = Committed(@, tx[u])]
       /\ tx' = [tx EXCEPT ![u] = None]
       /\ lock' = [lock EXCEPT ![u] = NoProc]
       /\ res' = [res EXCEPT ![p] = Outcome(Ok, event_record(call[p]), call[p].derived)]
       /\ pc' = [pc EXCEPT ![p] = "done"]
       /\ UNCHANGED <<clock, call>>

\* a close that keeps what the transaction wrote
RolledBack_KeepsWrites(committed, written) == written

\* the database after conn.close() without a commit: the transaction is rolled back
RolledBack(committed, written) == committed

\* a failing emit whose connection stays open, its transaction with it
Fail_KeepsLock(p) ==
    /\ pc[p] \in {"project", "commit"}
    /\ res' = [res EXCEPT ![p] = Outcome(StorageError, None, None)]
    /\ pc' = [pc EXCEPT ![p] = "done"]
    /\ UNCHANGED <<db, tx, lock, clock, call>>

\* line 223 and database.py lines 189-190: an sqlite3 error other than
\* "locked" raised inside the transaction (by update_projections' writes or by
\* the commit) leaves the with block; conn.close() rolls the transaction back
Fail(p) ==
    LET u == call[p].user_id
    IN /\ pc[p] \in {"project", "commit"}
       /\ db' = [db EXCEPT ![u] = RolledBack(@, tx[u])]
       /\ tx' = [tx EXCEPT ![u] = None]
       /\ lock' = [lock EXCEPT ![u] = NoProc]
       /\ res' = [res EXCEPT ![p] = Outcome(StorageError, None, None)]
       /\ pc' = [pc EXCEPT ![p] = "done"]
       /\ UNCHANGED <<clock, call>>

\* the caller has the result (main.py, emit_event_endpoint) and is free to call again
Return(p) ==
    /\ pc[p] = "done"
    /\ pc' = [pc EXCEPT ![p] = "idle"]
    /\ call' = [call EXCEPT ![p] = NoCall]
    /\ res' = [res EXCEPT ![p] = Outcome(NoResult, None, None)]
    /\ UNCHANGED <<db, tx, lock, clock>>

(***************************************************************************)
(* emit_event_endpoint (main.py, lines 117-148): the HTTP status that the   *)
(* caller gets.  An exception is caught by the first except clause that     *)
(* names its class or a class it inherits from.                             *)
(***************************************************************************)
\* the class of the exception that ends emit_event, with the classes it
\* inherits from: pydantic's ValidationError is a ValueError
RaisedClasses(kind) ==
    CASE kind = SchemaInvalid -> {"ValidationError", "ValueError", "Exception"}
      [] kind = PreconditionViolation -> {"ValueError", "Exception"}
      [] kind = WriteConflict -> {"ConcurrencyConflictError", "Exception"}
      [] kind = StorageError -> {"OperationalError", "Exception"}

\* lines 138-148: the except clauses in their order
ExceptClauses ==
    <<[class |-> "ConcurrencyConflictError", status_code |-> 409],
      [class |-> "ValidationError", status_code |-> 422],
      [class |-> "ValueError", status_code |-> 400],
      [class |-> "Exception", status_code |-> 500]>>

\* an endpoint whose except ValueError comes before its except ValidationError
emit_event_endpoint_ValueErrorFirst(kind) ==
    LET clauses == <<ExceptClauses[1], ExceptClauses[3], ExceptClauses[2], ExceptClauses[4]>>
        i == FirstIndex({n \in 1..Len(clauses) : clauses[n].class \in RaisedClasses(kind)})
    IN IF kind = Ok THEN 200 ELSE clauses[i].status_code

\* lines 123-148: the status of the response
emit_event_endpoint(kind) ==
    LET i == FirstIndex({n \in 1..Len(ExceptClauses) :
                            ExceptClauses[n].class \in RaisedClasses(kind)})
    IN IF kind = Ok THEN 200 ELSE ExceptClauses[i].status_code

\* the steps of a call that has been entered
Step(p) ==
    \/ Validate(p)
    \/ ReadClock(p)
    \/ Insert(p)
    \/ LockTimeout(p)
    \/ Project(p)
    \/ Commit(p)
    \/ Fail(p)
    \/ Return(p)

(***************************************************************************)
(* The calls a run follows.  A run follows at most `budget` readings of    *)
(* the clock.  With the budget spent a call is still followed when it is   *)
(* bound to be rejected: its payload is invalid, or its precondition fails *)
(* and no other call is running.                                           *)
(***************************************************************************)
\* the running calls other than p's that have not read the clock yet
Pending(p) == {q \in Procs \ {p} : pc[q] \in {"validate", "append"}}

Admitted(p, user_id, event_type, raw, budget) ==
    LET validated_dict == validate_payload(event_type, raw, uuid4(UsedUuids))
    IN IF clock + Cardinality(Pending(p)) < budget THEN TRUE
       ELSE IF validated_dict = ValidationError THEN TRUE
       ELSE /\ \A q \in Procs \ {p} : pc[q] \in {"idle", "done"}
            /\ ~validate_event_preconditions(
                   event_type, validated_dict, db[user_id].projections)

(***************************************************************************)
(* Specification Spec: two callers emit workout events concurrently for    *)
(* one user.                                                               *)
(***************************************************************************)
\* the requests the two callers choose from
RaceRequests ==
    {[event_type |-> WORKOUT_STARTED,
      payload |-> [workout_id |-> "w1", exercise_ids |-> <<"e1">>]],
     [event_type |-> WORKOUT_COMPLETED, payload |-> [workout_id |-> "w1"]],
     [event_type |-> SET_LOGGED,
      payload |-> [workout_id |-> "w1", exercise_id |-> "e1", weight |-> 10, reps |-> 8]],
     [event_type |-> SET_LOGGED,
      payload |-> [workout_id |-> "w1", exercise_id |-> "e1", weight |-> 0, reps |-> 8]]}

Emit(p) ==
    \E r \in RaceRequests :
        /\ Admitted(p, "u1", r.event_type, r.payload, MaxAppends)
        /\ Call(p, "u1", r.event_type, r.payload)

Next ==
    \E p \in Procs : Emit(p) \/ Step(p)

Spec == Init /\ [][Next]_vars

(***************************************************************************)
(* Specification SpecTemplates: two callers emit template events           *)
(* concurrently for one user.                                              *)
(***************************************************************************)
TemplateRequests ==
    {[event_type |-> TEMPLATE_CREATED, payload |-> [template_id |-> "t1", name |-> "A"]],
     [event_type |-> TEMPLATE_UPDATED, payload |-> [template_id |-> "t1", name |-> "B"]],
     [event_type |-> TEMPLATE_DELETED, payload |-> [template_id |-> "t1"]]}

EmitTemplate(p) ==
    \E r \in TemplateRequests :
        /\ Admitted(p, "u1", r.event_type, r.payload, MaxTemplateAppends)
        /\ Call(p, "u1", r.event_type, r.payload)

NextTemplates ==
    \E p \in Procs : EmitTemplate(p) \/ Step(p)

SpecTemplates == Init /\ [][NextTemplates]_vars

(***************************************************************************)
(* Specification SpecSets: one caller emits, one call after the other, the *)
(* events of workouts and their sets.                                      *)
(***************************************************************************)
Handles == 1..MaxHandle

SetRequests ==
    {[event_type |-> WORKOUT_STARTED,
      payload |-> [workout_id |-> "w1", exercise_ids |-> <<"e1", "e2">>]],
     [event_type |-> WORKOUT_STARTED, payload |-> [workout_id |-> "w2"]],
     [event_type |-> WORKOUT_STARTED, payload |-> [from_template_id |-> "t1"]],
     [event_type |-> SET_LOGGED,
      payload |-> [workout_id |-> "w1", exercise_id |-> "e1", weight |-> 100, reps |-> 8]],
     [event_type |-> SET_LOGGED,
      payload |-> [workout_id |-> "w1", exercise_id |-> "e2", weight |-> 50, reps |-> 10,
                   unit |-> "lb"]],
     [event_type |-> WORKOUT_COMPLETED, payload |-> [workout_id |-> "w1"]],
     [event_type |-> WORKOUT_DISCARDED, payload |-> [workout_id |-> "w1"]]}
    \cup {[event_type |-> SET_MODIFIED,
           payload |-> [workout_id |-> "w1", original_event_id |-> h, reps |-> 5]] :
            h \in Handles}
    \cup {[event_type |-> SET_MODIFIED,
           payload |-> [workout_id |-> "w1", original_event_id |-> 2, weight |-> 6,
                        unit |-> "lb"]],
          [event_type |-> SET_MODIFIED,
           payload |-> [workout_id |-> "w2", original_event_id |-> 2, weight |-> 6]]}
    \cup {[event_type |-> SET_DELETED,
           payload |-> [workout_id |-> "w1", original_event_id |-> h]] : h \in Handles}
    \cup {[event_type |-> SET_DELETED,
           payload |-> [workout_id |-> "w2", original_event_id |-> 2]]}

\* the one caller of SpecSets
Solo == "p1"

EmitSet ==
    \E r \in SetRequests :
        /\ Admitted(Solo, "u1", r.event_type, r.payload, MaxSetAppends)
        /\ Call(Solo, "u1", r.event_type, r.payload)

\* the steps of the one caller: with nobody else at the lock, no LockTimeout
NextSets ==
    \/ EmitSet
    \/ Validate(Solo)
    \/ ReadClock(Solo)
    \/ Insert(Solo)
    \/ Project(Solo)
    \/ Commit(Solo)
    \/ Fail(Solo)
    \/ Return(Solo)

SpecSets == Init /\ [][NextSets]_vars

(***************************************************************************)
(* Specification SpecExercises: one caller emits, one call after the       *)
(* other, the events that build the exercise list of a workout and end it. *)
(***************************************************************************)
ExerciseRequests ==
    {[event_type |-> WORKOUT_STARTED,
      payload |-> [workout_id |-> "w1", exercise_ids |-> <<"e1", "e1">>]],
     [event_type |-> WORKOUT_STARTED,
      payload |-> [workout_id |-> "w1", exercise_ids |-> <<"e1">>]],
     [event_type |-> WORKOUT_STARTED, payload |-> [workout_id |-> "w2"]],
     [event_type |-> WORKOUT_STARTED,
      payload |-> [workout_id |-> "w2", exercise_ids |-> <<>>]],
     [event_type |-> WORKOUT_STARTED,
      payload |-> [workout_id |-> "w1", exercise_ids |-> <<"e2", "e1">>]],
     [event_type |-> WORKOUT_COMPLETED, payload |-> [workout_id |-> "w1"]],
     [event_type |-> WORKOUT_COMPLETED,
      payload |-> [workout_id |-> "w1", notes |-> "n"]],
     [event_type |-> WORKOUT_DISCARDED, payload |-> [workout_id |-> "w1"]],
     [event_type |-> SET_MODIFIED,
      payload |-> [workout_id |-> "w1", original_event_id |-> 2, reps |-> 5]],
     [event_type |-> SET_DELETED,
      payload |-> [workout_id |-> "w1", original_event_id |-> 2]]}
    \cup {[event_type |-> EXERCISE_ADDED,
           payload |-> [workout_id |-> w, exercise_id |-> e]] :
            w \in {"w1", "w2"}, e \in {"e1", "e2"}}
    \cup {[event_type |-> SET_LOGGED,
           payload |-> [workout_id |-> w, exercise_id |-> e, weight |-> 1, reps |-> 1]] :
            w \in {"w1", "w2"}, e \in {"e1", "e2"}}

EmitExercise ==
    \E r \in ExerciseRequests :
        /\ Admitted(Solo, "u1", r.event_type, r.payload, MaxExerciseAppends)
        /\ Call(Solo, "u1", r.event_type, r.payload)

NextExercises ==
    \/ EmitExercise
    \/ Validate(Solo)
    \/ ReadClock(Solo)
    \/ Insert(Solo)
    \/ Project(Solo)
    \/ Commit(Solo)
    \/ Fail(Solo)
    \/ Return(Solo)

SpecExercises == Init /\ [][NextExercises]_vars

(***************************************************************************)
(* Specification SpecUsers: two callers emit concurrently, each call for   *)
(* one of two users, whose databases are two files (config.get_db_path).   *)
(***************************************************************************)
UserRequests ==
    {[event_type |-> WORKOUT_STARTED, payload |-> [workout_id |-> "w1"]],
     [event_type |-> WORKOUT_COMPLETED, payload |-> [workout_id |-> "w1"]]}

EmitUser(p) ==
    \E u \in Users, r \in UserRequests :
        /\ Admitted(p, u, r.event_type, r.payload, MaxUserAppends)
        /\ Call(p, u, r.event_type, r.payload)

NextUsers ==
    \E p \in Procs : EmitUser(p) \/ Step(p)

SpecUsers == Init /\ [][NextUsers]_vars

(***************************************************************************)
(* Specification SpecFair: the two callers of Spec, each running in a      *)
(* thread or process of its own that the scheduler does not leave waiting  *)
(* forever: a call that has been entered keeps taking its steps.           *)
(***************************************************************************)
FairRequests ==
    {[event_type |-> WORKOUT_STARTED, payload |-> [workout_id |-> "w1"]],
     [event_type |-> WORKOUT_COMPLETED, payload |-> [workout_id |-> "w1"]]}

EmitFair(p) ==
    \E r \in FairRequests :
        /\ Admitted(p, "u1", r.event_type, r.payload, MaxFairAppends)
        /\ Call(p, "u1", r.event_type, r.payload)

NextFair ==
    \E p \in Procs : EmitFair(p) \/ Step(p)

SpecFair == Init /\ [][NextFair]_vars /\ \A p \in Procs : WF_vars(Step(p))

(***************************************************************************)
(* Specification SpecLibrary: one caller emits, one call after the other,  *)
(* the events of the template library and of the workouts started from it. *)
(***************************************************************************)
\* a TemplateExercise as model_dump() gives it (the fields that are not None)
PlannedExercise(exercise_id) ==
    [exercise_id |-> exercise_id, target_sets |-> 3, target_unit |-> "kg",
     set_type |-> "standard", rest_seconds |-> 60]

LibraryRequests ==
    {[event_type |-> TEMPLATE_CREATED,
      payload |-> [template_id |-> "t1", name |-> "A", exercise_ids |-> <<"e1">>]],
     [event_type |-> TEMPLATE_CREATED,
      payload |-> [name |-> "B", exercises |-> <<PlannedExercise("e1")>>]],
     [event_type |-> TEMPLATE_UPDATED, payload |-> [template_id |-> "t1", name |-> "C"]],
     [event_type |-> TEMPLATE_UPDATED,
      payload |-> [template_id |-> "t1", exercise_ids |-> <<"e2">>]],
     [event_type |-> TEMPLATE_UPDATED,
      payload |-> [template_id |-> "t1", exercises |-> <<PlannedExercise("e2")>>]],
     [event_type |-> TEMPLATE_DELETED, payload |-> [template_id |-> "t1"]],
     [event_type |-> WORKOUT_STARTED,
      payload |-> [workout_id |-> "w1", from_template_id |-> "t1",
                   exercise_ids |-> <<"e1">>]],
     [event_type |-> WORKOUT_STARTED,
      payload |-> [workout_id |-> "w1", from_template_id |-> "t9"]],
     [event_type |-> WORKOUT_STARTED, payload |-> [workout_id |-> "w1"]],
     [event_type |-> WORKOUT_COMPLETED, payload |-> [workout_id |-> "w1"]],
     [event_type |-> WORKOUT_DISCARDED, payload |-> [workout_id |-> "w1"]]}

EmitLibrary ==
    \E r \in LibraryRequests :
        /\ Admitted(Solo, "u1", r.event_type, r.payload, MaxLibraryAppends)
        /\ Call(Solo, "u1", r.event_type, r.payload)

NextLibrary ==
    \/ EmitLibrary
    \/ Validate(Solo)
    \/ ReadClock(Solo)
    \/ Insert(Solo)
    \/ Project(Solo)
    \/ Commit(Solo)
    \/ Fail(Solo)
    \/ Return(Solo)

SpecLibrary == Init /\ [][NextLibrary]_vars

(***************************************************************************)
(* Specification SpecErrors: two callers emit concurrently for one user    *)
(* events whose payloads pass or fail the schema.                          *)
(***************************************************************************)
ErrorRequests ==
    {[event_type |-> WORKOUT_STARTED, payload |-> [exercise_ids |-> <<"e1">>]],
     [event_type |-> WORKOUT_COMPLETED, payload |-> [notes |-> "n"]],
     [event_type |-> SET_LOGGED,
      payload |-> [workout_id |-> "1", exercise_id |-> "e1", weight |-> 10, reps |-> 8]],
     [event_type |-> SET_LOGGED,
      payload |-> [workout_id |-> "1", exercise_id |-> "e1", weight |-> 0, reps |-> 8]],
     [event_type |-> SET_LOGGED,
      payload |-> [workout_id |-> "1", exercise_id |-> "e1", weight |-> 10, reps |-> -1]],
     [event_type |-> SET_MODIFIED,
      payload |-> [workout_id |-> "1", original_event_id |-> 2, reps |-> 5]],
     [event_type |-> SET_MODIFIED,
      payload |-> [workout_id |-> "1", original_event_id |-> 2, reps |-> 0]],
     [event_type |-> SET_MODIFIED,
      payload |-> [original_event_id |-> 2, weight |-> 5]]}

EmitError(p) ==
    \E r \in ErrorRequests :
        /\ Admitted(p, "u1", r.event_type, r.payload, MaxErrorAppends)
        /\ Call(p, "u1", r.event_type, r.payload)

NextErrors ==
    \E p \in Procs : EmitError(p) \/ Step(p)

SpecErrors == Init /\ [][NextErrors]_vars

(***************************************************************************)
(* Specification SpecFrame: one caller emits, one call after the other,    *)
(* events of every type that has a branch in update_projections.           *)
(***************************************************************************)
FrameRequests ==
    {[event_type |-> TEMPLATE_CREATED,
      payload |-> [template_id |-> "t1", name |-> "A", exercise_ids |-> <<"e1">>]],
     [event_type |-> TEMPLATE_UPDATED, payload |-> [template_id |-> "t1", name |-> "B"]],
     [event_type |-> TEMPLATE_DELETED, payload |-> [template_id |-> "t1"]],
     [event_type |-> WORKOUT_STARTED,
      payload |-> [workout_id |-> "w1", exercise_ids |-> <<"e1">>]],
     [event_type |-> EXERCISE_ADDED, payload |-> [workout_id |-> "w1", exercise_id |-> "e2"]],
     [event_type |-> SET_LOGGED,
      payload |-> [workout_id |-> "w1", exercise_id |-> "e1", weight |-> 10, reps |-> 8]],
     [event_type |-> SET_MODIFIED,
      payload |-> [workout_id |-> "w1", original_event_id |-> 4, reps |-> 5]],
     [event_type |-> SET_DELETED,
      payload |-> [workout_id |-> "w1", original_event_id |-> 4]],
     [event_type |-> WORKOUT_COMPLETED, payload |-> [workout_id |-> "w1"]],
     [event_type |-> WORKOUT_DISCARDED, payload |-> [workout_id |-> "w1"]]}

EmitFrame ==
    \E r \in FrameRequests :
        /\ Admitted(Solo, "u1", r.event_type, r.payload, MaxFrameAppends)
        /\ Call(Solo, "u1", r.event_type, r.payload)

NextFrame ==
    \/ EmitFrame
    \/ Validate(Solo)
    \/ ReadClock(Solo)
    \/ Insert(Solo)
    \/ Project(Solo)
    \/ Commit(Solo)
    \/ Fail(Solo)
    \/ Return(Solo)

SpecFrame == Init /\ [][NextFrame]_vars

(***************************************************************************)
(* The steps and the readings the properties below speak of.               *)
(***************************************************************************)
\* this step is p's call passing line 191, accepted or rejected
Validates(p) == pc[p] = "validate" /\ pc'[p] # "validate"

\* this step ends p's call with the ValueError of a failed precondition
Rejected(p) == pc'[p] = "done" /\ res'[p].kind = PreconditionViolation

\* this step is p's call committing and returning its event
Commits(p) == pc[p] = "commit" /\ pc'[p] = "done" /\ res'[p].kind = Ok

\* the committed projections of user u
CurrentWorkout(u) == get_projection(db[u].projections, "current_workout")
WorkoutHistory(u) == projection_or_empty(db[u].projections, "workout_history")
WorkoutTemplates(u) == projection_or_empty(db[u].projections, "workout_templates")

\* the positions of the events of one of the types
EventsOfType(events, types) == {i \in 1..Len(events) : events[i].event_type \in types}

\* the position in the log of the event with the id, 0 when there is none
PositionOf(events, event_id) ==
    IF \E i \in 1..Len(events) : events[i].event_id = event_id
    THEN CHOOSE i \in 1..Len(events) : events[i].event_id = event_id
    ELSE 0

\* the WorkoutStarted events that no later WorkoutCompleted or WorkoutDiscarded follows
OpenWorkouts(events) ==
    {i \in EventsOfType(events, {WORKOUT_STARTED}) :
        \A j \in EventsOfType(events, {WORKOUT_COMPLETED, WORKOUT_DISCARDED}) : j < i}

(***************************************************************************)
(* C1 to C10.                                                              *)
(***************************************************************************)
\* C1: of two emits of WorkoutStarted that run concurrently for a user with
\* no active workout, never both succeed: the log never gains the two
\* WorkoutStarted events of the pair, one right after the other.
C1_NeverBothStartsSucceed ==
    \A p, q \in Procs :
        (/\ p # q
         /\ pc[p] = "done" /\ pc[q] = "done"
         /\ call[p].event_type = WORKOUT_STARTED /\ call[q].event_type = WORKOUT_STARTED
         /\ call[p].user_id = call[q].user_id
         /\ res[p].kind = Ok /\ res[q].kind = Ok)
        => LET events == db[call[p].user_id].events
           IN PositionOf(events, res[q].event_record.event_id)
                # PositionOf(events, res[p].event_record.event_id) + 1

\* C2: current_workout is absent or holds the one workout that the log has
\* open, and an emit of WorkoutStarted validated while current_workout is
\* present ends with a precondition violation, whatever its payload, and
\* changes nothing.
C2_SingleActiveWorkout ==
    [][\A u \in Users :
        /\ LET current == get_projection(db'[u].projections, "current_workout")
               open == OpenWorkouts(db'[u].events)
           IN /\ Cardinality(open) <= 1
              /\ Truthy(current) <=> open # {}
              /\ \A i \in open :
                    /\ current.id = db'[u].events[i].payload.workout_id
                    /\ current.started_at = db'[u].events[i].timestamp
        /\ \A p \in Procs :
            (/\ Validates(p)
             /\ call[p].user_id = u
             /\ call[p].event_type = WORKOUT_STARTED
             /\ Truthy(CurrentWorkout(u)))
            => Rejected(p) /\ db' = db]_vars

\* C2's case: a WorkoutStarted naming another workout than the active one
\* has been rejected
C2_Witness ==
    /\ pc[Solo] = "done"
    /\ call[Solo].event_type = WORKOUT_STARTED
    /\ res[Solo].kind = PreconditionViolation
    /\ Truthy(CurrentWorkout("u1"))
    /\ CurrentWorkout("u1").id # call[Solo].payload.workout_id

\* C3: an emit holds the write lock of its user's database when it runs the
\* validation reads, and from then on through append_event and
\* update_projections until it commits or aborts.
C3_LockHeldFromValidation ==
    [][\A p \in Procs :
        (Validates(p) \/ pc[p] \in {"append", "insert", "project", "commit"})
        => lock[call[p].user_id] = p]_vars

\* C4: an emit is all or nothing.  The committed log and projections of a
\* user change only in the step in which an emit commits and returns: the
\* log then gains exactly one event, the returned one, and the projections
\* are the reducer's result for that event over the projections before.  A
\* step that ends an emit with any failure, a storage error in the middle
\* of the transaction included, leaves all of it unchanged.
C4_AllOrNothing ==
    [][\A u \in Users :
        LET committing == {p \in Procs : Commits(p) /\ call[p].user_id = u}
        IN IF committing = {}
           THEN db'[u] = db[u]
           ELSE \E p \in committing :
                    LET c == call[p]
                        n == Len(db[u].events)
                    IN /\ Len(db'[u].events) = n + 1
                       /\ SubSeq(db'[u].events, 1, n) = db[u].events
                       /\ db'[u].events[n + 1] = Put(res'[p].event_record, "id", n + 1)
                       /\ res'[p].event_record = event_record(c)
                       /\ db'[u].projections =
                            update_projections(c.event_type, c.payload, c.event_id,
                                               c.timestamp, db[u].projections)]_vars

\* C4's case: an emit has failed inside its transaction, after the INSERT,
\* over a database that holds an earlier event
C4_Witness ==
    \E p \in Procs :
        /\ pc[p] = "done"
        /\ res[p].kind = StorageError
        /\ db[call[p].user_id].events # <<>>

\* the projections after the events went through update_projections in order
RECURSIVE Replay(_, _)
Replay(events, projections) ==
    IF events = <<>> THEN projections
    ELSE LET e == Head(events)
         IN Replay(Tail(events),
                   update_projections(e.event_type, e.payload, e.event_id, e.timestamp,
                                      projections))

\* C5: in every state, whatever emits are running, the committed projections
\* of a user are what the committed log gives when it is folded through
\* update_projections from empty projections.
C5_ReplayGivesLiveProjections ==
    \A u \in Users : Replay(db[u].events, EmptyDict) = db[u].projections

\* C5's case: the log holds a SetLogged that was appended after the
\* WorkoutCompleted of its workout, by an emit that ran beside the other
C5_Witness ==
    LET events == db["u1"].events
    IN /\ Len(events) = 3
       /\ events[2].event_type = WORKOUT_COMPLETED
       /\ events[3].event_type = SET_LOGGED
       /\ WorkoutHistory("u1") # <<>>

\* the handles that the SetLogged events of the open workout have produced
ProducedHandles(events) ==
    {events[j].event_id :
        j \in {k \in EventsOfType(events, {SET_LOGGED}) :
                \E i \in OpenWorkouts(events) : i < k}}

\* the sets of the workout, exercise after exercise
RECURSIVE SetsOf(_)
SetsOf(exercises) ==
    IF exercises = <<>> THEN <<>> ELSE Head(exercises).sets \o SetsOf(Tail(exercises))

\* C6: a SetModified or SetDeleted passes validation exactly when a workout
\* is active, the payload names it, and a set of it carries the handle
\* original_event_id.  A handle that no SetLogged of the active workout
\* produced (one of an earlier workout, completed or discarded, included)
\* ends the emit with a precondition violation, and a rejected emit changes
\* nothing.
C6_SetHandlesChecked ==
    [][\A p \in Procs :
        LET u == call[p].user_id
            payload == call[p].payload
            current == CurrentWorkout(u)
            held == IF Truthy(current)
                    THEN {SetsOf(current.exercises)[j].event_id :
                            j \in 1..Len(SetsOf(current.exercises))}
                    ELSE {}
        IN (Validates(p) /\ call[p].event_type \in {SET_MODIFIED, SET_DELETED})
           => /\ pc'[p] = "append" <=>
                    /\ Truthy(current)
                    /\ payload.workout_id = current.id
                    /\ payload.original_event_id \in held
              /\ payload.original_event_id \notin ProducedHandles(db[u].events)
                    => Rejected(p)
              /\ pc'[p] # "append" => Rejected(p) /\ db' = db]_vars

\* C6's case: the handle of a set logged in an earlier workout has been
\* rejected while a workout of the same id is active
C6_Witness ==
    LET events == db["u1"].events
        h == call[Solo].payload.original_event_id
    IN /\ pc[Solo] = "done"
       /\ call[Solo].event_type \in {SET_MODIFIED, SET_DELETED}
       /\ res[Solo].kind = PreconditionViolation
       /\ Truthy(CurrentWorkout("u1"))
       /\ CurrentWorkout("u1").id = call[Solo].payload.workout_id
       /\ PositionOf(events, h) \in EventsOfType(events, {SET_LOGGED})
       /\ \E i \in OpenWorkouts(events) : PositionOf(events, h) < i

\* C7: in every state, whatever emits are running, no two records of
\* workout_templates have the same id.
C7_TemplateIdsUnique ==
    \A u \in Users :
        \A i, j \in 1..Len(WorkoutTemplates(u)) :
            i # j => WorkoutTemplates(u)[i].id # WorkoutTemplates(u)[j].id

\* C8: an emit of TemplateCreated validated while workout_templates holds a
\* template of its template_id ends with a precondition violation and
\* leaves the templates and the log unchanged.
C8_DuplicateTemplateRejected ==
    [][\A p \in Procs :
        (/\ Validates(p)
         /\ call[p].event_type = TEMPLATE_CREATED
         /\ \E i \in 1..Len(WorkoutTemplates(call[p].user_id)) :
                WorkoutTemplates(call[p].user_id)[i].id = call[p].payload.template_id)
        => Rejected(p) /\ db' = db]_vars

\* C8's case: a TemplateCreated has been rejected and the template it names is there
C8_Witness ==
    \E p \in Procs :
        /\ pc[p] = "done"
        /\ call[p].event_type = TEMPLATE_CREATED
        /\ res[p].kind = PreconditionViolation
        /\ \E i \in 1..Len(WorkoutTemplates("u1")) :
                WorkoutTemplates("u1")[i].id = call[p].payload.template_id
        /\ Len(db["u1"].events) = 1

\* the template ids the requests name
TemplateIds == {r.payload.template_id : r \in TemplateRequests}

\* the committed workout_templates of u holds a template of the id
Present(templates, template_id) ==
    \E i \in 1..Len(templates) : templates[i].id = template_id

\* C9: a TemplateUpdated or TemplateDeleted passes validation exactly when
\* a template of its id is present, and is rejected with a precondition
\* violation otherwise.  When a TemplateDeleted commits the id is gone, and
\* an id that is gone comes back only in the step that commits a
\* TemplateCreated of it: until then every emit validated for it is rejected.
C9_DeletedTemplateStaysGone ==
    [][\A u \in Users :
        /\ \A p \in Procs :
            (/\ Validates(p)
             /\ call[p].user_id = u
             /\ call[p].event_type \in {TEMPLATE_UPDATED, TEMPLATE_DELETED})
            => IF Present(WorkoutTemplates(u), call[p].payload.template_id)
               THEN pc'[p] = "append"
               ELSE Rejected(p) /\ db' = db
        /\ \A p \in Procs :
            (/\ Commits(p)
             /\ call[p].user_id = u
             /\ call[p].event_type = TEMPLATE_DELETED)
            => ~Present(projection_or_empty(db'[u].projections, "workout_templates"),
                        call[p].payload.template_id)
        /\ \A id \in TemplateIds :
            (/\ ~Present(WorkoutTemplates(u), id)
             /\ Present(projection_or_empty(db'[u].projections, "workout_templates"), id))
            => \E p \in Procs :
                /\ Commits(p)
                /\ call[p].user_id = u
                /\ call[p].event_type = TEMPLATE_CREATED
                /\ call[p].payload.template_id = id]_vars

\* C9's case: a TemplateUpdated or TemplateDeleted, entered after the emits
\* that created and deleted its template, has been rejected
C9_Witness ==
    LET events == db["u1"].events
    IN \E p \in Procs :
        /\ pc[p] = "done"
        /\ call[p].event_type \in {TEMPLATE_UPDATED, TEMPLATE_DELETED}
        /\ res[p].kind = PreconditionViolation
        /\ Len(events) = 2
        /\ \A i \in 1..Len(events) : events[i].event_id < call[p].event_id
        /\ events[Len(events)].event_type = TEMPLATE_DELETED
        /\ events[Len(events)].payload.template_id = call[p].payload.template_id

\* the set after a SetModified: of weight, reps and unit those the payload
\* holds are the payload's
ModifiedSet(set_data, payload) ==
    [k \in DOMAIN set_data |->
        IF k \in {"weight", "reps", "unit"} /\ Has(payload, k)
        THEN payload[k] ELSE set_data[k]]

\* C10: the step that commits a SetModified changes, of all projections,
\* only the set with the handle: of its weight, reps and unit those that
\* the payload holds become the payload's, its other fields, every other
\* set, the place of every set and all else of the workout stay.
C10_SetModifiedFrame ==
    [][\A p \in Procs :
        (Commits(p) /\ call[p].event_type = SET_MODIFIED)
        => LET u == call[p].user_id
               payload == call[p].payload
               old == CurrentWorkout(u)
               new == get_projection(db'[u].projections, "current_workout")
           IN /\ DOMAIN db'[u].projections = DOMAIN db[u].projections
              /\ \A k \in DOMAIN db[u].projections \ {"current_workout"} :
                    db'[u].projections[k] = db[u].projections[k]
              /\ DOMAIN new = DOMAIN old
              /\ \A k \in DOMAIN old \ {"exercises"} : new[k] = old[k]
              /\ Len(new.exercises) = Len(old.exercises)
              /\ \A i \in 1..Len(old.exercises) :
                    LET oe == old.exercises[i]
                        ne == new.exercises[i]
                    IN /\ DOMAIN ne = DOMAIN oe
                       /\ \A k \in DOMAIN oe \ {"sets"} : ne[k] = oe[k]
                       /\ Len(ne.sets) = Len(oe.sets)
                       /\ \A j \in 1..Len(oe.sets) :
                            ne.sets[j] =
                                IF oe.sets[j].event_id = payload.original_event_id
                                THEN ModifiedSet(oe.sets[j], payload)
                                ELSE oe.sets[j]]_vars

\* C10's case: a SetModified that holds reps alone has been committed on
\* the first of two sets of the workout, which keeps its weight and unit
\* next to the other set
C10_Witness ==
    LET current == CurrentWorkout("u1")
    IN /\ pc[Solo] = "done"
       /\ call[Solo].event_type = SET_MODIFIED
       /\ res[Solo].kind = Ok
       /\ DOMAIN call[Solo].payload = {"workout_id", "original_event_id", "reps"}
       /\ Truthy(current)
       /\ Len(SetsOf(current.exercises)) = 2
       /\ \E j \in 1..2 :
            /\ SetsOf(current.exercises)[j].event_id = call[Solo].payload.original_event_id
            /\ SetsOf(current.exercises)[j].reps = 5
            /\ SetsOf(current.exercises)[j].weight = 100
            /\ SetsOf(current.exercises)[j].unit = "kg"

(***************************************************************************)
(* C11 to C20.                                                             *)
(***************************************************************************)
\* the sum of weight x reps over the sets that are in the unit
RECURSIVE UnitSum(_, _)
UnitSum(sets, unit) ==
    IF sets = <<>> THEN 0
    ELSE (IF Head(sets).unit = unit THEN Head(sets).weight * Head(sets).reps ELSE 0)
         + UnitSum(Tail(sets), unit)

\* the entry that a WorkoutCompleted committing in this step puts in front of u's history
Archived(u) == projection_or_empty(db'[u].projections, "workout_history")[1]

\* C11: the step that commits a WorkoutCompleted archives the workout with
\* stats.total_sets the number of its sets over all exercises and
\* stats.total_volume the sum over its sets of weight x reps, where a weight
\* in lb counts 0.453592 times and a weight in kg as it is.
C11_CompletedStats ==
    [][\A p \in Procs :
        (Commits(p) /\ call[p].event_type = WORKOUT_COMPLETED)
        => LET u == call[p].user_id
               sets == SetsOf(CurrentWorkout(u).exercises)
               lb == UnitSum(sets, "lb") * LbFactor
           IN /\ Archived(u).id = CurrentWorkout(u).id
              /\ Archived(u).stats.total_sets = Len(sets)
              /\ Archived(u).stats.total_volume.kg =
                    UnitSum(sets, "kg") + lb \div VolumeScale
              /\ Archived(u).stats.total_volume.micro = lb % VolumeScale]_vars

\* C11's case: a workout of one set 100 kg x 8 and one set 50 lb x 10 has
\* been completed with total_sets 2 and total_volume 1026.796
C11_Witness ==
    /\ WorkoutHistory("u1") # <<>>
    /\ LET entry == WorkoutHistory("u1")[1]
           sets == SetsOf(entry.exercises)
       IN /\ Len(sets) = 2
          /\ sets[1].weight = 100 /\ sets[1].reps = 8 /\ sets[1].unit = "kg"
          /\ sets[2].weight = 50 /\ sets[2].reps = 10 /\ sets[2].unit = "lb"
          /\ entry.stats.total_sets = 2
          /\ entry.stats.total_volume = [kg |-> 1026, micro |-> 796000]

\* the exercise ids of the entries of an exercise list
ExerciseIds(exercises) == {exercises[i].exercise_id : i \in 1..Len(exercises)}

\* C12: the step that commits a WorkoutCompleted archives the workout with
\* stats.exercise_count the number of distinct exercises of the workout,
\* however the workout was built.
C12_ExerciseCountDistinct ==
    [][\A p \in Procs :
        (Commits(p) /\ call[p].event_type = WORKOUT_COMPLETED)
        => Archived(call[p].user_id).stats.exercise_count =
            Cardinality(ExerciseIds(CurrentWorkout(call[p].user_id).exercises))]_vars

\* C13: an emit whose lock attempt ends while another connection holds the
\* write lock of its user's database ends there, with a write conflict:
\* nothing is appended, no projection written, the lock is left to its
\* holder.  A write conflict comes from the lock attempt alone, which the
\* emit makes once, after its validation; the result never turns into a
\* success and the event of the call never gets into the log.
C13_LockTimeoutIsConflict ==
    [][\A p \in Procs :
        LET u == call[p].user_id
        IN /\ (pc[p] = "insert" /\ lock[u] \notin {NoProc, p} /\ pc'[p] # pc[p])
              => /\ pc'[p] = "done"
                 /\ res'[p].kind = WriteConflict
                 /\ db' = db /\ tx' = tx /\ lock' = lock
           /\ (res'[p].kind = WriteConflict /\ res[p].kind # WriteConflict)
              => pc[p] = "insert" /\ lock[u] \notin {NoProc, p}
           /\ res[p].kind = WriteConflict
              => /\ res'[p].kind \in {WriteConflict, NoResult}
                 /\ pc'[p] \in {"done", "idle"}
                 /\ call[p].event_id \notin UuidsOfEvents(db'[u].events)]_vars

\* C13's case: an emit whose validation had passed has ended with a write
\* conflict while the other emit is still in its transaction
C13_Witness ==
    \E p \in Procs :
        /\ pc[p] = "done"
        /\ res[p].kind = WriteConflict
        /\ lock[call[p].user_id] \in Procs \ {p}
        /\ call[p].event_id \notin UuidsOfEvents(tx[call[p].user_id].events)

\* the callers whose emit for user u is between its lock acquisition and
\* its commit or abort
InFlight(u) == {p \in Procs : pc[p] \in {"project", "commit"} /\ call[p].user_id = u}

\* C14: at no time are two emits of one user between lock acquisition and
\* commit or abort: the one that is there holds the lock of that user's
\* database, and it alone.
C14_OneTransactionPerUser ==
    \A u \in Users :
        /\ Cardinality(InFlight(u)) <= 1
        /\ \A p \in InFlight(u) : lock[u] = p
        /\ lock[u] # NoProc => lock[u] \in InFlight(u)

\* C14's case: the two callers are in their transactions at the same time,
\* one for each user
C14_Witness ==
    /\ InFlight("u1") # {}
    /\ InFlight("u2") # {}

\* a list in the opposite order
Reversed(s) == [i \in 1..Len(s) |-> s[Len(s) + 1 - i]]

\* C15: whatever emits are running, what get_events and get_projection
\* return to a reader outside them is the state before or after whole
\* emits: each projection read is what the events read give when they go
\* through update_projections, and no event of an emit still in its
\* transaction is among the events read.
C15_ReadersSeeWholeEmits ==
    \A u \in Users :
        LET listed == get_events(Snapshot(u).events, "", DefaultLimit)
            replayed == Replay(Reversed(listed), EmptyDict)
        IN /\ \A key \in ProjectionKeys :
                get_projection(Snapshot(u).projections, key) = get_projection(replayed, key)
           /\ \A p \in InFlight(u) :
                \A k \in 1..Len(listed) : listed[k].event_id # call[p].event_id

\* C15's case: a WorkoutCompleted has written both projections in its
\* transaction and not committed; the reader sees the workout active and
\* no history
C15_Witness ==
    \E p \in Procs :
        /\ pc[p] = "commit"
        /\ call[p].event_type = WORKOUT_COMPLETED
        /\ get_projection(tx["u1"].projections, "current_workout") = None
        /\ projection_or_empty(tx["u1"].projections, "workout_history") # <<>>
        /\ Truthy(get_projection(Snapshot("u1").projections, "current_workout"))
        /\ get_projection(Snapshot("u1").projections, "workout_history") = None

\* C16: the log of a user is append-only.  In every step the committed log
\* after it is the log before it with events added at its end, the
\* event_ids of the log are pairwise distinct, and the sequence numbers (id)
\* grow strictly along the log.
C16_LogAppendOnly ==
    [][\A u \in Users :
        LET old == db[u].events
            new == db'[u].events
        IN /\ Len(new) >= Len(old)
           /\ SubSeq(new, 1, Len(old)) = old
           /\ \A i, j \in 1..Len(new) :
                i < j => new[i].event_id # new[j].event_id /\ new[i].id < new[j].id]_vars

\* C16's case: the log holds two events, committed by the one caller before
\* and after the other caller's emit was rolled back
C16_Witness ==
    /\ Len(db["u1"].events) = 2
    /\ \E p \in Procs : pc[p] = "done" /\ res[p].kind = StorageError

\* the events of the type (of any type when it is empty) from the last
\* stored to the first, as get_events returns an event
RECURSIVE NewestFirst(_, _)
NewestFirst(events, event_type) ==
    IF events = <<>> THEN <<>>
    ELSE LET last == events[Len(events)]
             earlier == NewestFirst(SubSeq(events, 1, Len(events) - 1), event_type)
         IN IF event_type = "" \/ last.event_type = event_type
            THEN <<[event_id |-> last.event_id, timestamp |-> last.timestamp,
                    event_type |-> last.event_type, payload |-> last.payload]>> \o earlier
            ELSE earlier

\* C17: whenever the stored events of a user have changed, get_events
\* returns them from the newest to the oldest, those of the event type
\* alone when one is given, and of these the first limit; right after an
\* emit has committed, its event is the first of the unfiltered result.
C17_GetEventsNewestFirst ==
    [][\A u \in {v \in Users : db'[v] # db[v]} :
        /\ \A event_type \in EventType \cup {""} :
            \A limit \in (0..MaxLimit) \cup {DefaultLimit} :
                LET all == NewestFirst(db'[u].events, event_type)
                    n == IF limit < Len(all) THEN limit ELSE Len(all)
                IN get_events(db'[u].events, event_type, limit) = SubSeq(all, 1, n)
        /\ \A p \in Procs :
            (Commits(p) /\ call[p].user_id = u)
            => get_events(db'[u].events, "", 1) = <<res'[p].event_record>>]_vars

\* C17's case: of three stored events the first and the last are
\* WorkoutStarted; the filtered result holds the two, the newest first
C17_Witness ==
    LET events == db["u1"].events
        listed == get_events(events, WORKOUT_STARTED, DefaultLimit)
    IN /\ Len(events) = 3
       /\ events[2].event_type # WORKOUT_STARTED
       /\ Len(listed) = 2
       /\ listed[1].event_id = events[3].event_id
       /\ listed[2].event_id = events[1].event_id
       /\ Len(get_events(events, "", 2)) = 2

\* p's emit_event has been entered and has not ended
Running(p) == pc[p] \notin {"idle", "done"}

\* C18: when every call keeps taking its steps, an emit that has started
\* ends, committed or aborted, and a write lock that is held gets released;
\* an emit that has ended holds no lock, and its event is in the log when
\* it committed and not when it was aborted, after its validation or not.
C18_EmitsEndAndRelease ==
    /\ \A p \in Procs : Running(p) ~> (pc[p] = "done")
    /\ \A u \in Users : (lock[u] # NoProc) ~> (lock[u] = NoProc)
    /\ [](\A p \in Procs :
            pc[p] = "done"
            => /\ res[p].kind \in {Ok, SchemaInvalid, PreconditionViolation,
                                   WriteConflict, StorageError}
               /\ lock[call[p].user_id] # p
               /\ res[p].kind = Ok
                    <=> call[p].event_id \in UuidsOfEvents(db[call[p].user_id].events))

\* C18's case: after the one emit was aborted inside its transaction, the
\* other holds the lock in a transaction of its own
C18_Witness ==
    \E p, q \in Procs :
        /\ pc[p] = "done"
        /\ res[p].kind = StorageError
        /\ q \in InFlight(call[p].user_id)

\* the events that take an active workout of their workout_id
WorkoutEvents ==
    {EXERCISE_ADDED, SET_LOGGED, SET_MODIFIED, SET_DELETED,
     WORKOUT_COMPLETED, WORKOUT_DISCARDED}

\* C19: an emit of ExerciseAdded, SetLogged, SetModified, SetDeleted,
\* WorkoutCompleted or WorkoutDiscarded validated while no workout is
\* active, or while its workout_id is not the active workout's, ends with
\* a precondition violation and changes nothing.  The commit of a
\* WorkoutCompleted or WorkoutDiscarded leaves no workout active, so that
\* while the log has no workout open (none started since the last was
\* completed or discarded) every such emit is rejected.
C19_WorkoutEventsNeedActiveWorkout ==
    [][\A p \in Procs :
        LET u == call[p].user_id
            current == CurrentWorkout(u)
            mismatch == IF Truthy(current)
                        THEN call[p].payload.workout_id # current.id
                        ELSE TRUE
        IN /\ (Validates(p) /\ call[p].event_type \in WorkoutEvents
                /\ (mismatch \/ OpenWorkouts(db[u].events) = {}))
              => Rejected(p) /\ db' = db
           /\ (Commits(p)
                /\ call[p].event_type \in {WORKOUT_COMPLETED, WORKOUT_DISCARDED})
              => /\ get_projection(db'[u].projections, "current_workout") = None
                 /\ OpenWorkouts(db'[u].events) = {}]_vars

\* C19's case: a second WorkoutCompleted for the workout that was completed
\* last has been rejected
C19_Witness ==
    LET events == db["u1"].events
    IN /\ pc[Solo] = "done"
       /\ call[Solo].event_type = WORKOUT_COMPLETED
       /\ res[Solo].kind = PreconditionViolation
       /\ events # <<>>
       /\ events[Len(events)].event_type = WORKOUT_COMPLETED
       /\ events[Len(events)].payload.workout_id = call[Solo].payload.workout_id

\* C20: with a workout active and its id in the payload, an ExerciseAdded
\* passes validation exactly when its exercise_id is not in the exercise
\* list of the workout, and a SetLogged exactly when it is; the one that
\* does not pass ends with a precondition violation and changes nothing.
C20_ExerciseListChecked ==
    [][\A p \in Procs :
        LET u == call[p].user_id
            current == CurrentWorkout(u)
            active == IF Truthy(current)
                      THEN call[p].payload.workout_id = current.id
                      ELSE FALSE
        IN (Validates(p) /\ call[p].event_type \in {EXERCISE_ADDED, SET_LOGGED} /\ active)
           => LET listed == call[p].payload.exercise_id \in ExerciseIds(current.exercises)
              IN IF listed <=> call[p].event_type = SET_LOGGED
                 THEN pc'[p] = "append"
                 ELSE Rejected(p) /\ db' = db]_vars

\* C20's case: in the active workout, which has an exercise of its own, a
\* SetLogged for an exercise that is not in its list has been rejected
C20_Witness ==
    LET current == CurrentWorkout("u1")
    IN /\ pc[Solo] = "done"
       /\ call[Solo].event_type = SET_LOGGED
       /\ res[Solo].kind = PreconditionViolation
       /\ Truthy(current)
       /\ current.id = call[Solo].payload.workout_id
       /\ current.exercises # <<>>
       /\ call[Solo].payload.exercise_id \notin ExerciseIds(current.exercises)

(***************************************************************************)
(* C21 to C30.                                                             *)
(***************************************************************************)
\* C21: the step that commits a WorkoutCompleted puts in front of the
\* history, which it keeps otherwise, the workout as it was, with
\* completed_at the timestamp of the event, the notes of the payload and
\* the stats added, and leaves no workout active and the templates as they
\* were; the entries of the history are in the order of their completion,
\* the last completed first.
C21_CompletedGoesFirst ==
    [][\A p \in Procs :
        (Commits(p) /\ call[p].event_type = WORKOUT_COMPLETED)
        => LET u == call[p].user_id
               payload == call[p].payload
               old == CurrentWorkout(u)
               history == projection_or_empty(db'[u].projections, "workout_history")
               entry == history[1]
               added == {"completed_at", "stats"} \cup (DOMAIN payload \cap {"notes"})
           IN /\ history = <<entry>> \o WorkoutHistory(u)
              /\ DOMAIN entry = DOMAIN old \cup added
              /\ \A k \in DOMAIN old : entry[k] = old[k]
              /\ entry.completed_at = res'[p].event_record.timestamp
              /\ Has(payload, "notes") => entry.notes = payload.notes
              /\ DOMAIN entry.stats = {"exercise_count", "total_sets", "total_volume"}
              /\ get_projection(db'[u].projections, "current_workout") = None
              /\ projection_or_empty(db'[u].projections, "workout_templates")
                    = WorkoutTemplates(u)
              /\ \A i, j \in 1..Len(history) :
                    i < j => history[i].completed_at > history[j].completed_at]_vars

\* C21's case: a second workout has been completed, with notes; its entry
\* stands before the entry of the workout completed earlier
C21_Witness ==
    LET history == WorkoutHistory("u1")
    IN /\ Len(history) = 2
       /\ CurrentWorkout("u1") = None
       /\ Has(history[1], "notes") /\ ~Has(history[2], "notes")
       /\ history[1].started_at > history[2].completed_at
       /\ history[1].exercises # history[2].exercises

\* the started_at of the workouts that were discarded: the timestamps of the
\* WorkoutStarted events whose next WorkoutCompleted or WorkoutDiscarded is
\* a WorkoutDiscarded
DiscardedStarts(events) ==
    {events[i].timestamp :
        i \in {k \in EventsOfType(events, {WORKOUT_STARTED}) :
                LET ends == {j \in EventsOfType(events, {WORKOUT_COMPLETED, WORKOUT_DISCARDED}) :
                                j > k}
                IN IF ends = {} THEN FALSE
                   ELSE events[Min(ends)].event_type = WORKOUT_DISCARDED}}

\* C22: the step that commits a WorkoutDiscarded leaves no workout active
\* and the history and the templates as they were; no entry of the history
\* is ever a workout that was discarded.
C22_DiscardedLeavesNoTrace ==
    [][\A u \in Users :
        /\ \A p \in Procs :
            (Commits(p) /\ call[p].user_id = u /\ call[p].event_type = WORKOUT_DISCARDED)
            => /\ Truthy(CurrentWorkout(u))
               /\ get_projection(db'[u].projections, "current_workout") = None
               /\ projection_or_empty(db'[u].projections, "workout_history")
                    = WorkoutHistory(u)
               /\ projection_or_empty(db'[u].projections, "workout_templates")
                    = WorkoutTemplates(u)
        /\ LET history == projection_or_empty(db'[u].projections, "workout_history")
           IN \A i \in 1..Len(history) :
                history[i].started_at \notin DiscardedStarts(db'[u].events)]_vars

\* C22's case: after a workout was completed, a workout of the same id has
\* been started and discarded; the history holds the completed one alone
C22_Witness ==
    LET events == db["u1"].events
    IN /\ Len(events) = 4
       /\ events[2].event_type = WORKOUT_COMPLETED
       /\ events[4].event_type = WORKOUT_DISCARDED
       /\ events[4].payload.workout_id = events[2].payload.workout_id
       /\ CurrentWorkout("u1") = None
       /\ Len(WorkoutHistory("u1")) = 1
       /\ WorkoutHistory("u1")[1].started_at = events[1].timestamp

\* the two templates agree in use_count and last_used_at
SameUse(a, b) ==
    /\ a.use_count = b.use_count
    /\ Has(a, "last_used_at") <=> Has(b, "last_used_at")
    /\ Has(a, "last_used_at") /\ Has(b, "last_used_at") => a.last_used_at = b.last_used_at

\* this step commits p's WorkoutStarted for u from a template that is present
StartsFromTemplate(p, u) ==
    /\ Commits(p)
    /\ call[p].user_id = u
    /\ call[p].event_type = WORKOUT_STARTED
    /\ Has(call[p].payload, "from_template_id")
    /\ Present(WorkoutTemplates(u), call[p].payload.from_template_id)

\* C23: the step that commits a WorkoutStarted whose from_template_id is the
\* id of a template of the list adds 1 to the use_count of that template and
\* makes its last_used_at the timestamp of the event, and changes nothing
\* else of the list; in every other step a template that stays in the list
\* keeps its use_count and last_used_at.
C23_UseCountedAtStart ==
    [][\A u \in Users :
        LET old == WorkoutTemplates(u)
            new == projection_or_empty(db'[u].projections, "workout_templates")
        IN /\ \A p \in Procs :
                StartsFromTemplate(p, u)
                => /\ Len(new) = Len(old)
                   /\ \A i \in 1..Len(old) :
                        IF old[i].id = call[p].payload.from_template_id
                        THEN /\ new[i].use_count = old[i].use_count + 1
                             /\ new[i].last_used_at = res'[p].event_record.timestamp
                             /\ DOMAIN new[i] = DOMAIN old[i] \cup {"last_used_at"}
                             /\ \A k \in DOMAIN old[i] \ {"use_count", "last_used_at"} :
                                    new[i][k] = old[i][k]
                        ELSE new[i] = old[i]
           /\ (\A p \in Procs : ~StartsFromTemplate(p, u))
                => \A i \in 1..Len(old) : \A j \in 1..Len(new) :
                        old[i].id = new[j].id => SameUse(old[i], new[j])]_vars

\* C23's case: of two templates the second has been used by the
\* WorkoutStarted that is the last event; it counts one use at that time,
\* the first none
C23_Witness ==
    LET events == db["u1"].events
        templates == WorkoutTemplates("u1")
    IN /\ Len(events) = 3
       /\ events[3].event_type = WORKOUT_STARTED
       /\ Len(templates) = 2
       /\ Has(events[3].payload, "from_template_id")
       /\ templates[2].id = events[3].payload.from_template_id
       /\ templates[2].use_count = 1
       /\ Has(templates[2], "last_used_at")
       /\ templates[2].last_used_at = events[3].timestamp
       /\ templates[1].use_count = 0
       /\ ~Has(templates[1], "last_used_at")

\* the payload as the caller gave it breaks the schema of its event type:
\* no workout_id where one is required, or a weight or reps that is not
\* above 0
Malformed(event_type, raw) ==
    \/ event_type \in WorkoutEvents /\ ~Has(raw, "workout_id")
    \/ /\ event_type \in {SET_LOGGED, SET_MODIFIED}
       /\ \/ Has(raw, "weight") /\ raw.weight <= 0
          \/ Has(raw, "reps") /\ raw.reps <= 0

\* in this step: an emit that ends, ends with success or with an error of
\* one of the kinds; an emit entered with a malformed payload ends at once
\* as SchemaInvalid (status 422), with no lock taken, no precondition
\* looked at and nothing written; SchemaInvalid comes from nowhere else
ErrorKindsAre(kinds) ==
    \A p \in Procs :
        LET enters == pc[p] = "idle" /\ pc'[p] # "idle"
            ends == pc[p] # "done" /\ pc'[p] = "done"
        IN /\ ends => res'[p].kind \in {Ok} \cup kinds
           /\ (enters /\ Malformed(call'[p].event_type, call'[p].raw))
                => /\ ends
                   /\ res'[p].kind = SchemaInvalid
                   /\ db' = db /\ tx' = tx /\ lock' = lock /\ clock' = clock
           /\ (ends /\ res'[p].kind = SchemaInvalid)
                => enters /\ Malformed(call'[p].event_type, call'[p].raw)
           /\ ends => LET status == emit_event_endpoint(res'[p].kind)
                      IN /\ status = 422 <=> res'[p].kind = SchemaInvalid
                         /\ status = 400 <=> res'[p].kind = PreconditionViolation
                         /\ status = 409 <=> res'[p].kind = WriteConflict

\* C24 as it is stated: a failing emit reports one of SchemaInvalid,
\* PreconditionViolation and WriteConflict, and a malformed payload is
\* reported as SchemaInvalid before the lock and the preconditions, with
\* log and projections unchanged.
C24_ThreeErrorKinds ==
    [][ErrorKindsAre({SchemaInvalid, PreconditionViolation, WriteConflict})]_vars

\* C24, amended: a failing emit reports one of SchemaInvalid,
\* PreconditionViolation and WriteConflict or a storage failure that is
\* none of the three, and a malformed payload is reported as SchemaInvalid
\* before the lock and the preconditions, with log and projections
\* unchanged.
C24_ErrorKindsWithStorage ==
    [][ErrorKindsAre({SchemaInvalid, PreconditionViolation, WriteConflict,
                      StorageError})]_vars

\* C24's case: a SetModified with reps 0 has ended as SchemaInvalid while
\* the other caller holds the write lock in its transaction
C24_Witness ==
    \E p \in Procs :
        /\ pc[p] = "done"
        /\ call[p].event_type = SET_MODIFIED
        /\ Has(call[p].raw, "reps")
        /\ res[p].kind = SchemaInvalid
        /\ lock[call[p].user_id] \in Procs \ {p}

RECURSIVE WithoutHandle(_, _)
WithoutHandle(sets, handle) ==
    IF sets = <<>> THEN <<>>
    ELSE IF Head(sets).event_id = handle THEN WithoutHandle(Tail(sets), handle)
    ELSE <<Head(sets)>> \o WithoutHandle(Tail(sets), handle)

\* C26: the step that commits a SetDeleted takes out of the active workout
\* the one set that carries original_event_id: the workout has one set
\* less, every exercise keeps its place, its id and its other sets as they
\* were and in their order, also the exercise that is left without a set,
\* and focus_exercise, the history and the templates stay.
C26_SetDeletedFrame ==
    [][\A p \in Procs :
        (Commits(p) /\ call[p].event_type = SET_DELETED)
        => LET u == call[p].user_id
               handle == call[p].payload.original_event_id
               old == CurrentWorkout(u)
               new == get_projection(db'[u].projections, "current_workout")
           IN /\ DOMAIN new = DOMAIN old
              /\ \A k \in DOMAIN old \ {"exercises"} : new[k] = old[k]
              /\ Len(new.exercises) = Len(old.exercises)
              /\ \A i \in 1..Len(old.exercises) :
                    /\ DOMAIN new.exercises[i] = DOMAIN old.exercises[i]
                    /\ new.exercises[i].exercise_id = old.exercises[i].exercise_id
                    /\ new.exercises[i].sets = WithoutHandle(old.exercises[i].sets, handle)
              /\ Len(SetsOf(new.exercises)) = Len(SetsOf(old.exercises)) - 1
              /\ projection_or_empty(db'[u].projections, "workout_history")
                    = WorkoutHistory(u)
              /\ projection_or_empty(db'[u].projections, "workout_templates")
                    = WorkoutTemplates(u)]_vars

\* C26's case: the first of the two sets of the first exercise has been
\* deleted; the second is still there, and focus_exercise is the exercise
\* of the set logged last, in the other exercise
C26_Witness ==
    LET current == CurrentWorkout("u1")
        events == db["u1"].events
    IN /\ pc[Solo] = "done"
       /\ call[Solo].event_type = SET_DELETED
       /\ res[Solo].kind = Ok
       /\ Len(events) = 5
       /\ call[Solo].payload.original_event_id = events[2].event_id
       /\ Truthy(current)
       /\ Len(current.exercises) = 2
       /\ Len(current.exercises[1].sets) = 1
       /\ current.exercises[1].sets[1].event_id = events[3].event_id
       /\ Len(current.exercises[2].sets) = 1
       /\ current.focus_exercise = current.exercises[2].exercise_id

\* C27: the step that commits a WorkoutStarted makes current_workout a
\* workout with the workout_id of the payload as id, the timestamp of the
\* event as started_at and, for each element of the payload's exercise_ids
\* in their order, an exercise of that id without sets; focus_exercise is
\* the first element, and is empty when the payload has no exercise_ids or
\* an empty list.
C27_StartedWorkout ==
    [][\A p \in Procs :
        (Commits(p) /\ call[p].event_type = WORKOUT_STARTED)
        => LET u == call[p].user_id
               stored == res'[p].event_record
               ids == IF Has(call[p].raw, "exercise_ids")
                      THEN call[p].raw.exercise_ids ELSE <<>>
               new == get_projection(db'[u].projections, "current_workout")
           IN /\ ~Truthy(CurrentWorkout(u))
              /\ Truthy(new)
              /\ new.id = stored.payload.workout_id
              /\ Has(call[p].raw, "workout_id") => new.id = call[p].raw.workout_id
              /\ new.started_at = stored.timestamp
              /\ Len(new.exercises) = Len(ids)
              /\ \A i \in 1..Len(ids) :
                    new.exercises[i] = [exercise_id |-> ids[i], sets |-> <<>>]
              /\ IF ids = <<>>
                 THEN ~Has(new, "focus_exercise")
                 ELSE Has(new, "focus_exercise") /\ new.focus_exercise = ids[1]
              /\ projection_or_empty(db'[u].projections, "workout_history")
                    = WorkoutHistory(u)]_vars

\* C27's case: after a workout was completed, a workout has been started
\* with two exercise ids; it has the two exercises in the order of the
\* payload and the first as focus_exercise
C27_Witness ==
    LET current == CurrentWorkout("u1")
        events == db["u1"].events
    IN /\ Len(events) = 3
       /\ WorkoutHistory("u1") # <<>>
       /\ Truthy(current)
       /\ current.started_at = events[3].timestamp
       /\ Len(current.exercises) = 2
       /\ current.exercises[1].exercise_id # current.exercises[2].exercise_id
       /\ current.focus_exercise = current.exercises[1].exercise_id
       /\ current.focus_exercise = events[3].payload.exercise_ids[1]

\* C28: the step that commits an emit returns derived data exactly when the
\* event is a WorkoutCompleted: the total_sets and total_volume of the
\* stats of the entry that this commit puts in front of the history, and
\* nothing else; the commit of any other event, and an emit that fails,
\* returns none.
C28_DerivedOnCompletedOnly ==
    [][\A p \in Procs :
        /\ Commits(p)
            => IF call[p].event_type = WORKOUT_COMPLETED
               THEN /\ res'[p].derived # None
                    /\ DOMAIN res'[p].derived = {"total_sets", "total_volume"}
                    /\ res'[p].derived.total_sets
                            = Archived(call[p].user_id).stats.total_sets
                    /\ res'[p].derived.total_volume
                            = Archived(call[p].user_id).stats.total_volume
                    /\ Archived(call[p].user_id).completed_at
                            = res'[p].event_record.timestamp
               ELSE res'[p].derived = None
        /\ (pc'[p] = "done" /\ res'[p].kind # Ok) => res'[p].derived = None]_vars

\* C28's case: the WorkoutCompleted of a workout of two sets has returned
\* total_sets 2 and total_volume 1026.796
C28_Witness ==
    /\ pc[Solo] = "done"
    /\ call[Solo].event_type = WORKOUT_COMPLETED
    /\ res[Solo].kind = Ok
    /\ res[Solo].derived = [total_sets |-> 2,
                            total_volume |-> [kg |-> 1026, micro |-> 796000]]
    /\ WorkoutHistory("u1")[1].stats.total_sets = 2

\* the templates of the list that do not have the id, in their order
RECURSIVE WithoutId(_, _)
WithoutId(templates, template_id) ==
    IF templates = <<>> THEN <<>>
    ELSE IF Head(templates).id = template_id THEN WithoutId(Tail(templates), template_id)
    ELSE <<Head(templates)>> \o WithoutId(Tail(templates), template_id)

\* in this step: the commit of a TemplateUpdated leaves every template in
\* its place, the others as they were, and of the template of its id every
\* field but those the payload supplies (name, exercise_ids, exercises) and
\* those in written; the commit of a TemplateDeleted takes the one template
\* of its id out of the list and keeps the others in their order
TemplateFrame(written) ==
    \A p \in Procs :
        LET u == call[p].user_id
            payload == call[p].payload
            old == WorkoutTemplates(u)
            new == projection_or_empty(db'[u].projections, "workout_templates")
            supplied == DOMAIN payload \cap {"name", "exercise_ids", "exercises"}
        IN /\ (Commits(p) /\ call[p].event_type = TEMPLATE_UPDATED)
                => /\ Len(new) = Len(old)
                   /\ \A i \in 1..Len(old) :
                        IF old[i].id = payload.template_id
                        THEN /\ \A k \in (DOMAIN new[i] \cup DOMAIN old[i])
                                            \ (supplied \cup written) :
                                    /\ k \in DOMAIN new[i] \cap DOMAIN old[i]
                                    /\ new[i][k] = old[i][k]
                             /\ new[i].id = old[i].id
                             /\ new[i].created_at = old[i].created_at
                             /\ SameUse(old[i], new[i])
                        ELSE new[i] = old[i]
           /\ (Commits(p) /\ call[p].event_type = TEMPLATE_DELETED)
                => /\ new = WithoutId(old, payload.template_id)
                   /\ Len(new) = Len(old) - 1

\* C29 as it is stated: an accepted TemplateUpdated changes, in the
\* template of its id alone, only the fields that the payload supplies;
\* id, created_at, use_count, last_used_at, the place in the list and the
\* other templates stay.  An accepted TemplateDeleted removes the one
\* template of its id and keeps the others in order.
C29_OnlySuppliedFieldsChange ==
    [][TemplateFrame({})]_vars

\* C29, amended: as stated, but for updated_at, which an accepted
\* TemplateUpdated sets in the template though no payload supplies it.
C29_SuppliedFieldsAndUpdatedAt ==
    [][TemplateFrame({"updated_at"})]_vars

\* C29's case: the second of two templates, used once, has been renamed by
\* the last event; it keeps its use count and last_used_at, and the first
\* template is as it was created
C29_Witness ==
    LET events == db["u1"].events
        templates == WorkoutTemplates("u1")
    IN /\ Len(events) = 4
       /\ events[4].event_type = TEMPLATE_UPDATED
       /\ Has(events[4].payload, "name")
       /\ Len(templates) = 2
       /\ templates[2].id = events[4].payload.template_id
       /\ templates[2].name = events[4].payload.name
       /\ templates[2].use_count = 1
       /\ Has(templates[2], "last_used_at")
       /\ templates[1].created_at = events[1].timestamp
       /\ ~Has(templates[1], "updated_at")

\* the template record holds the exercise list that the payload supplies,
\* under the key of the format it was supplied in
CarriesExercises(template, payload) ==
    /\ Has(payload, "exercise_ids")
        => IF Has(template, "exercise_ids")
           THEN template.exercise_ids = payload.exercise_ids
           ELSE FALSE
    /\ Has(payload, "exercises")
        => IF Has(template, "exercises")
           THEN template.exercises = payload.exercises
           ELSE FALSE

\* C30: the commit of a TemplateCreated leaves in workout_templates a record
\* with the payload's template_id and name, use_count 0 and no last_used_at,
\* which carries the exercise list of the payload, given as exercise_ids or
\* as exercises; the commit of a TemplateUpdated that supplies exercises
\* stores them in the record of its id.
C30_TemplateKeepsExercises ==
    [][\A p \in Procs :
        LET payload == call[p].payload
            new == projection_or_empty(db'[call[p].user_id].projections, "workout_templates")
            template_id == payload.template_id
        IN /\ (Commits(p) /\ call[p].event_type = TEMPLATE_CREATED)
                => \E i \in 1..Len(new) :
                        /\ new[i].id = template_id
                        /\ new[i].name = payload.name
                        /\ new[i].use_count = 0
                        /\ ~Has(new[i], "last_used_at")
                        /\ CarriesExercises(new[i], payload)
           /\ (Commits(p) /\ call[p].event_type = TEMPLATE_UPDATED
                          /\ Has(payload, "exercises"))
                => \E i \in 1..Len(new) :
                        /\ new[i].id = template_id
                        /\ CarriesExercises(new[i], payload)]_vars

(***************************************************************************)
(* C31 to C39.                                                             *)
(***************************************************************************)
\* C31: in every state the exercise_ids of the entries of
\* current_workout.exercises are pairwise distinct: the list has as many
\* entries as it has different exercise_ids.
C31_ExerciseIdsDistinct ==
    \A u \in Users :
        Truthy(CurrentWorkout(u))
        => LET exercises == CurrentWorkout(u).exercises
           IN Cardinality(ExerciseIds(exercises)) = Len(exercises)

\* C32: in every state the ids of the entries of workout_history are
\* pairwise distinct, and none of them is the id of the active workout.
C32_WorkoutIdsDistinct ==
    \A u \in Users :
        LET history == WorkoutHistory(u)
        IN /\ \A i, j \in 1..Len(history) : i # j => history[i].id # history[j].id
           /\ Truthy(CurrentWorkout(u))
                => \A i \in 1..Len(history) : history[i].id # CurrentWorkout(u).id

\* C33: a step of an emit for one user leaves the log and the projections
\* of every other user as they were, and what the emit comes to follows
\* from its own user's committed log alone: it passes line 191 exactly when
\* the validator accepts it over the projections that this log folds to,
\* and the derived data it returns is computed over those projections.
C33_UsersIsolated ==
    [][\A p \in Procs :
        LET u == IF pc[p] = "idle" THEN call'[p].user_id ELSE call[p].user_id
            own == Replay(db[u].events, EmptyDict)
        IN pc'[p] # pc[p]
           => /\ \A v \in Users \ {u} : db'[v] = db[v]
              /\ Validates(p)
                    => (Rejected(p) <=>
                            ~validate_event_preconditions(
                                call[p].event_type, call[p].payload, own))
              /\ Commits(p)
                    => res'[p].derived =
                            derived_data(call[p].event_type, call[p].payload, own)]_vars

\* C33's case: while u1 has an active workout, a WorkoutStarted of u2 was
\* accepted and its WorkoutCompleted has returned derived data; u1 has no
\* history
C33_Witness ==
    \E p \in Procs :
        /\ pc[p] = "done"
        /\ call[p].user_id = "u2"
        /\ call[p].event_type = WORKOUT_COMPLETED
        /\ res[p].kind = Ok
        /\ res[p].derived # None
        /\ Truthy(CurrentWorkout("u1"))
        /\ WorkoutHistory("u1") = <<>>
        /\ Len(WorkoutHistory("u2")) = 1
        /\ ~Truthy(CurrentWorkout("u2"))

\* C34: workout_history only grows.  After every step it has as many
\* entries as the user's log has WorkoutCompleted events, and the entries it
\* had before the step are its last entries, unchanged and in their order.
C34_HistoryOnlyGrows ==
    [][\A u \in Users :
        LET old == WorkoutHistory(u)
            new == projection_or_empty(db'[u].projections, "workout_history")
        IN /\ Len(new) = Cardinality(EventsOfType(db'[u].events, {WORKOUT_COMPLETED}))
           /\ Len(new) >= Len(old)
           /\ SubSeq(new, Len(new) - Len(old) + 1, Len(new)) = old]_vars

\* the handles that the accepted SetDeleted events of the log name
DeletedHandles(events) ==
    {events[i].payload.original_event_id : i \in EventsOfType(events, {SET_DELETED})}

\* the handle is that of a set of the active workout
HandleValid(projections, handle) ==
    LET current == get_projection(projections, "current_workout")
    IN IF Truthy(current)
       THEN LET sets == SetsOf(current.exercises)
            IN \E i \in 1..Len(sets) : sets[i].event_id = handle
       ELSE FALSE

\* C35: once the log holds an accepted SetDeleted for a handle, every
\* SetModified and SetDeleted with that handle validated from then on, in
\* that workout or a later one, ends with a precondition violation and
\* changes nothing; and the commit of a SetModified leaves a handle that was
\* valid valid: the validator still accepts a SetModified and a SetDeleted
\* for it.
C35_DeletedHandleStaysDead ==
    [][\A p \in Procs :
        LET u == call[p].user_id
            payload == call[p].payload
        IN /\ (/\ Validates(p)
               /\ call[p].event_type \in {SET_MODIFIED, SET_DELETED}
               /\ payload.original_event_id \in DeletedHandles(db[u].events))
                => Rejected(p) /\ db' = db
           /\ (/\ Commits(p)
               /\ call[p].event_type = SET_MODIFIED
               /\ HandleValid(db[u].projections, payload.original_event_id))
                => /\ HandleValid(db'[u].projections, payload.original_event_id)
                   /\ \A event_type \in {SET_MODIFIED, SET_DELETED} :
                        validate_event_preconditions(
                            event_type,
                            [workout_id |-> payload.workout_id,
                             original_event_id |-> payload.original_event_id],
                            db'[u].projections)]_vars

\* C35's case: a set was logged, changed twice by its handle and then
\* deleted, and a further SetDeleted for the handle has been rejected
C35_Witness ==
    LET events == db["u1"].events
    IN /\ pc[Solo] = "done"
       /\ call[Solo].event_type = SET_DELETED
       /\ res[Solo].kind = PreconditionViolation
       /\ Len(events) = 5
       /\ events[3].event_type = SET_MODIFIED
       /\ events[4].event_type = SET_MODIFIED
       /\ events[5].event_type = SET_DELETED
       /\ events[3].payload.original_event_id = events[2].event_id
       /\ events[4].payload.original_event_id = events[2].event_id
       /\ events[5].payload.original_event_id = events[2].event_id
       /\ call[Solo].payload.original_event_id = events[2].event_id
       /\ Truthy(CurrentWorkout("u1"))
       /\ call[Solo].payload.workout_id = CurrentWorkout("u1").id

\* C36: in every state, whatever emits are running, the timestamps of a
\* user's log do not decrease along the sequence numbers, and every entry
\* of workout_history was started no later than it was completed.
C36_TimestampsFollowSequence ==
    \A u \in Users :
        LET events == db[u].events
            history == WorkoutHistory(u)
        IN /\ \A i, j \in 1..Len(events) :
                events[i].id < events[j].id => events[i].timestamp <= events[j].timestamp
           /\ \A i \in 1..Len(history) : history[i].started_at <= history[i].completed_at

\* the focus_exercise of a workout, as a list: empty, or the one id
FocusOf(workout) ==
    IF Has(workout, "focus_exercise") THEN <<workout.focus_exercise>> ELSE <<>>

\* C37: after every step, an active workout with no exercises has no
\* focus_exercise, and one with exercises has for focus_exercise the
\* exercise_id of one of them; the commit of a SetModified or of a
\* SetDeleted leaves focus_exercise as it was.
C37_FocusIsAnExercise ==
    [][\A u \in Users :
        LET old == CurrentWorkout(u)
            new == get_projection(db'[u].projections, "current_workout")
        IN /\ Truthy(new)
                => IF new.exercises = <<>>
                   THEN FocusOf(new) = <<>>
                   ELSE /\ FocusOf(new) # <<>>
                        /\ FocusOf(new)[1] \in ExerciseIds(new.exercises)
           /\ \A p \in Procs :
                (/\ Commits(p)
                 /\ call[p].user_id = u
                 /\ call[p].event_type \in {SET_MODIFIED, SET_DELETED})
                => FocusOf(new) = FocusOf(old)]_vars

\* C37's case: a set of the first exercise has been deleted while the
\* focus was on the exercise added after it, and the focus is still there
C37_Witness ==
    LET events == db["u1"].events
        current == CurrentWorkout("u1")
    IN /\ Len(events) = 4
       /\ events[2].event_type = SET_LOGGED
       /\ events[3].event_type = EXERCISE_ADDED
       /\ events[4].event_type = SET_DELETED
       /\ events[2].payload.exercise_id # events[3].payload.exercise_id
       /\ Truthy(current)
       /\ Len(current.exercises) = 2
       /\ FocusOf(current) = <<events[3].payload.exercise_id>>

\* the event types whose branch of update_projections is said to leave the projection alone
TemplateEvents == {TEMPLATE_CREATED, TEMPLATE_UPDATED, TEMPLATE_DELETED}
ExerciseAndSetEvents == {EXERCISE_ADDED, SET_LOGGED, SET_MODIFIED, SET_DELETED}

\* C38: the commit of a TemplateCreated, TemplateUpdated or TemplateDeleted
\* leaves current_workout and workout_history as they were; the commit of
\* an ExerciseAdded, SetLogged, SetModified, SetDeleted, WorkoutCompleted or
\* WorkoutDiscarded leaves workout_templates as it was; the commit of an
\* ExerciseAdded, SetLogged, SetModified or SetDeleted leaves
\* workout_history as it was.
C38_ProjectionFrames ==
    [][\A p \in Procs :
        LET u == call[p].user_id
            event_type == call[p].event_type
            SameCurrent == get_projection(db'[u].projections, "current_workout")
                                = CurrentWorkout(u)
            SameHistory == projection_or_empty(db'[u].projections, "workout_history")
                                = WorkoutHistory(u)
            SameTemplates == projection_or_empty(db'[u].projections, "workout_templates")
                                = WorkoutTemplates(u)
        IN Commits(p)
           => /\ event_type \in TemplateEvents => SameCurrent /\ SameHistory
              /\ event_type \in ExerciseAndSetEvents \cup {WORKOUT_COMPLETED, WORKOUT_DISCARDED}
                    => SameTemplates
              /\ event_type \in ExerciseAndSetEvents => SameHistory]_vars

\* C38's case: with a completed workout in the history, a set of the next
\* workout has been logged and then changed; the history still holds the
\* one entry, as it was archived
C38_Witness ==
    LET events == db["u1"].events
        history == WorkoutHistory("u1")
        current == CurrentWorkout("u1")
    IN /\ Len(events) = 5
       /\ events[2].event_type = WORKOUT_COMPLETED
       /\ events[4].event_type = SET_LOGGED
       /\ events[5].event_type = SET_MODIFIED
       /\ Len(history) = 1
       /\ history[1].completed_at = events[2].timestamp
       /\ history[1].exercises[1].sets = <<>>
       /\ Truthy(current)
       /\ current.exercises[1].sets # <<>>
       /\ current.exercises[1].sets[1].reps = events[5].payload.reps
       /\ WorkoutTemplates("u1") = <<>>

\* documents to store: null, a workout, a list with an entry
StoredSamples ==
    <<None,
      [id |-> "w9", started_at |-> 0, exercises |-> <<>>],
      <<[id |-> "t9", name |-> "Z", use_count |-> 0]>>>>

=============================================================================
